---- MODULE Spec2Model ----
(***************************************************************************)
(* A model of the zush prompt rendering pipeline: the width-aware terminal *)
(* buffer (buffer/mod.rs), the markup preprocessor                         *)
(* (template/preprocessor.rs), template registration and rendering         *)
(* (template/mod.rs) and the render orchestrator (main.rs).                *)
(*                                                                         *)
(* Text is a sequence of characters, each a one-character string.  Two     *)
(* kinds of character have no one-character spelling here and are written  *)
(* as tokens: ESC is the escape character 0x1b, and "U+xxxx" is the glyph  *)
(* of that code point.  Indices are zero-based as in the source: At(cs, k) *)
(* is chars[k] and Slice(cs, a, b) is chars[a..b].                         *)
(***************************************************************************)
EXTENDS Integers, Sequences, FiniteSets, TLC

VARIABLES
    \* TemplatePreprocessor / TemplateEngine
    template,       \* the raw template handed to preprocess
    colors,         \* theme colour table: name -> text
    symbols,        \* theme symbol table: name -> text
    segments,       \* segment table: name -> SegmentDef
    pc,             \* position in preprocess / register / render
    chars,          \* process_styles: the text being scanned
    i,              \* process_styles: scan index
    output,         \* process_styles: output so far
    style_stack,    \* process_styles: open tags
    extracted,      \* outcome of extract_segments
    result,         \* outcome of preprocess
    rendered,       \* outcome of TemplateEngine::render
    \* TerminalBuffer
    width, height, content, styles, bufOp,
    \* render_prompt
    rp,
    \* a call of a function of Color, of visible_width or of a template helper
    call,
    \* history storage: the history file, its advisory lock, the processes
    file, lock, procs,
    \* ModuleRegistry
    modules, enabled

preVars == <<template, colors, symbols, segments, pc, chars, i, output,
             style_stack, extracted, result, rendered>>
bufVars == <<width, height, content, styles, bufOp>>
rpVars == <<rp>>
callVars == <<call>>
histVars == <<file, lock, procs>>
regVars == <<modules, enabled>>
vars == <<preVars, bufVars, rpVars, callVars, histVars, regVars>>

----------------------------------------------------------------------------
(* Characters and text *)

ESC == "ESC"

Chars(s) == [k \in 1..Len(s) |-> SubSeq(s, k, k)]

RECURSIVE Str(_)
Str(cs) == IF cs = <<>> THEN "" ELSE Head(cs) \o Str(Tail(cs))

At(cs, k) == cs[k + 1]
Slice(cs, a, b) == SubSeq(cs, a + 1, b)

None == [some |-> FALSE]
Some(v) == [some |-> TRUE, v |-> v]

Lower == {"a","b","c","d","e","f","g","h","i","j","k","l","m",
          "n","o","p","q","r","s","t","u","v","w","x","y","z"}
Upper == {"A","B","C","D","E","F","G","H","I","J","K","L","M",
          "N","O","P","Q","R","S","T","U","V","W","X","Y","Z"}
DigitChars == {"0","1","2","3","4","5","6","7","8","9"}

\* char::is_alphabetic, char::is_alphanumeric, char::is_whitespace on the
\* characters the model uses ("é" is alphabetic and two bytes long).
IsAlphabetic(c) == c \in Lower \cup Upper \cup {"é"}
IsAlphanumeric(c) == IsAlphabetic(c) \/ c \in DigitChars
IsWhitespace(c) == c \in {" ", "\n", "\t"}

\* UTF-8 length of a character
CharBytes(c) ==
    IF c = "é" THEN 2
    ELSE IF c = ESC THEN 1
    ELSE IF Len(c) > 1 THEN 3
    ELSE 1

RECURSIVE ByteLen(_)
ByteLen(cs) == IF cs = <<>> THEN 0 ELSE CharBytes(Head(cs)) + ByteLen(Tail(cs))

\* whether byte offset b of cs falls between two characters
IsCharBoundary(cs, b) == \E k \in 0..Len(cs) : ByteLen(SubSeq(cs, 1, k)) = b

\* &s[a..b] by byte offsets, both on character boundaries
ByteSlice(cs, a, b) ==
    LET ka == CHOOSE k \in 0..Len(cs) : ByteLen(SubSeq(cs, 1, k)) = a
        kb == CHOOSE k \in 0..Len(cs) : ByteLen(SubSeq(cs, 1, k)) = b
    IN SubSeq(cs, ka + 1, kb)

RECURSIVE TrimStart(_)
TrimStart(cs) ==
    IF cs # <<>> /\ IsWhitespace(Head(cs)) THEN TrimStart(Tail(cs)) ELSE cs

RECURSIVE TrimEnd(_)
TrimEnd(cs) ==
    IF cs # <<>> /\ IsWhitespace(cs[Len(cs)])
    THEN TrimEnd(SubSeq(cs, 1, Len(cs) - 1)) ELSE cs

Trim(cs) == TrimEnd(TrimStart(cs))

\* whether pat occurs in cs at index k
MatchAt(cs, k, pat) ==
    k + Len(pat) <= Len(cs) /\ SubSeq(cs, k + 1, k + Len(pat)) = pat

Max(a, b) == IF a >= b THEN a ELSE b
Min(a, b) == IF a <= b THEN a ELSE b

\* str::find from index `from`: the first index of pat, or -1
RECURSIVE FindFrom(_, _, _)
FindFrom(cs, pat, from) ==
    IF from + Len(pat) > Len(cs) THEN -1
    ELSE IF MatchAt(cs, from, pat) THEN from
    ELSE FindFrom(cs, pat, from + 1)

Contains(cs, pat) == FindFrom(cs, pat, 0) >= 0

\* the first index from `from` on that holds a character of stops, or the length.
\* A scan that copies every character which starts nothing copies the run up
\* to this index in one step.
NextOf(cs, from, stops) ==
    LET hits == {j \in from..(Len(cs) - 1) : At(cs, j) \in stops}
    IN IF hits = {} THEN Max(from, Len(cs)) ELSE CHOOSE j \in hits : \A h \in hits : j <= h

RECURSIVE Dec(_)
\* decimal rendering of a natural number ({} formatting of a u8)
Dec(n) ==
    LET d == Chars("0123456789")[(n % 10) + 1]
    IN IF n < 10 THEN <<d>> ELSE Dec(n \div 10) \o <<d>>

HexDigits == Chars("0123456789abcdef")
HexDigitsUpper == Chars("0123456789ABCDEF")

\* value of a hexadecimal digit, or -1
HexVal(c) ==
    IF \E k \in 1..16 : HexDigits[k] = c
    THEN (CHOOSE k \in 1..16 : HexDigits[k] = c) - 1
    ELSE IF \E k \in 1..16 : HexDigitsUpper[k] = c
    THEN (CHOOSE k \in 1..16 : HexDigitsUpper[k] = c) - 1
    ELSE -1

\* u8::from_str_radix(s, 16) for a two-character s: a leading '+' is a sign
U8FromHex(s) ==
    IF Len(s) # 2 THEN -1
    ELSE IF s[1] = "+" THEN HexVal(s[2])
    ELSE IF HexVal(s[1]) >= 0 /\ HexVal(s[2]) >= 0
    THEN 16 * HexVal(s[1]) + HexVal(s[2])
    ELSE -1

Ok(v) == [st |-> "ok", v |-> v]
Err(kind, what) == [st |-> "err", kind |-> kind, what |-> what]
Panic == [st |-> "panic"]
Overflow == [st |-> "overflow"]

----------------------------------------------------------------------------
(* TemplatePreprocessor: symbols and colours *)

BuiltinSymbolRows == <<
    <<{"triangle_right", "tri_right", "arrow_right"}, "U+e0b0">>,
    <<{"triangle_left", "tri_left", "arrow_left"}, "U+e0b2">>,
    <<{"inverted_triangle_left", "inv_tri_right", "inv_arrow_right"}, "U+e0d7">>,
    <<{"inverted_triangle_right", "inv_tri_left", "inv_arrow_left"}, "U+e0d6">>,
    <<{"pill_left", "round_left"}, "U+e0b6">>,
    <<{"pill_right", "round_right"}, "U+e0b4">>,
    <<{"flame_left"}, "U+e0c0">>,
    <<{"flame_right"}, "U+e0c2">>,
    <<{"trapezoid_right"}, "U+e0d2">>,
    <<{"trapezoid_left"}, "U+e0d4">>,
    <<{"angle_right", "thin_right"}, "U+e0b1">>,
    <<{"angle_left", "thin_left"}, "U+e0b3">>,
    <<{"pill_right_thin", "round_right_thin"}, "U+e0b5">>,
    <<{"pill_left_thin", "round_left_thin"}, "U+e0b7">>,
    <<{"circle_right", "semicircle_right"}, "U+e0b8">>,
    <<{"circle_left", "semicircle_left"}, "U+e0ba">>,
    <<{"slant_right", "diagonal_right"}, "U+e0bc">>,
    <<{"slant_left", "diagonal_left"}, "U+e0be">>,
    <<{"ice_cream"}, "U+f0efd">>,
    <<{"ice_cream_thick"}, "U+ef888">>,
    <<{"ice_cream_outline"}, "U+f082a">>,
    <<{"backslash"}, "U+e216">>,
    <<{"lower_triangle_right"}, "U+e0b8">>,
    <<{"lower_triangle_left"}, "U+e0ba">>,
    <<{"upper_triangle_right"}, "U+e0bc">>,
    <<{"upper_triangle_left"}, "U+e0be">>,
    <<{"git_branch", "branch"}, "U+e0a0">>,
    <<{"lock"}, "U+e0a2">>,
    <<{"cog", "gear"}, "U+e615">>,
    <<{"home"}, "U+f015">>,
    <<{"folder"}, "U+f07c">>,
    <<{"folder_open"}, "U+f07b">>,
    <<{"timer"}, "U+f0109">>,
    <<{"heart"}, "U+f004">>,
    <<{"star"}, "U+f005">>,
    <<{"check"}, "U+f00c">>,
    <<{"cross", "x"}, "U+f00d">>,
    <<{"info"}, "U+f129">>,
    <<{"warning"}, "U+f071">>,
    <<{"question"}, "U+f128">>,
    <<{"clock"}, "U+f017">>,
    <<{"calendar"}, "U+f133">>,
    <<{"mail", "envelope"}, "U+f0e0">>,
    <<{"phone"}, "U+f095">>,
    <<{"music"}, "U+f001">>,
    <<{"camera"}, "U+f030">>,
    <<{"search", "magnifying_glass"}, "U+f002">>,
    <<{"trash", "trash_can"}, "U+f1f8">>,
    <<{"battery_full"}, "U+f240">>,
    <<{"battery_half"}, "U+f242">>,
    <<{"battery_low"}, "U+f243">>,
    <<{"wifi"}, "U+f1eb">>,
    <<{"plug"}, "U+f1e6">>,
    <<{"cloud"}, "U+f0c2">>,
    <<{"sun"}, "U+f185">>,
    <<{"moon"}, "U+f186">>,
    <<{"fire"}, "U+f06d">>,
    <<{"bug"}, "U+f188">>,
    <<{"code"}, "U+f121">>,
    <<{"terminal"}, "U+f120">>,
    <<{"keyboard"}, "U+f11c">>,
    <<{"laptop"}, "U+f109">>,
    <<{"desktop"}, "U+f108">>,
    <<{"server"}, "U+f233">>,
    <<{"computer"}, "U+f4b3">>,
    <<{"rocket"}, "U+f135">>,
    <<{"shield"}, "U+f3ed">>,
    <<{"terminal_power"}, "U+f489">>,
    <<{"terminal_fire"}, "U+f489">>,
    <<{"terminal_bolt"}, "U+f489">>,
    <<{"terminal_flame"}, "U+f489">>,
    <<{"lightning"}, "U+f0e7">>,
    <<{"zap"}, "U+f0e7">>,
    <<{"insect"}, "U+f188">>,
    <<{"leaf"}, "U+f06c">>,
    <<{"paw"}, "U+f1b0">>
>>

\* resolve_symbol: the first arm that names it
ResolveSymbol(symbol_name) ==
    LET name == Str(Trim(symbol_name))
        hits == {k \in 1..Len(BuiltinSymbolRows) : name \in BuiltinSymbolRows[k][1]}
    IN IF hits = {} THEN Err("unknown_symbol", name)
       ELSE Ok(<<BuiltinSymbolRows[CHOOSE k \in hits : \A j \in hits : k <= j][2]>>)

\* the deepest chain of name-to-name hops followed before the stack is exhausted
MaxResolveDepth == 6

RECURSIVE ResolveColorFrom(_, _, _)
ResolveColorFrom(table, color_str, fuel) ==
    LET trimmed == Trim(color_str)
        name == Str(trimmed)
    IN IF trimmed # <<>> /\ trimmed[1] = "#"
       THEN IF ByteLen(trimmed) # 7
            THEN Err("hex_length", name)
            ELSE IF \E b \in {3, 5} : ~IsCharBoundary(trimmed, b)
            THEN Panic
            ELSE LET r == U8FromHex(ByteSlice(trimmed, 1, 3))
                     g == U8FromHex(ByteSlice(trimmed, 3, 5))
                     b == U8FromHex(ByteSlice(trimmed, 5, 7))
                 IN IF r >= 0 /\ g >= 0 /\ b >= 0
                    THEN Ok(<<r, g, b>>)
                    ELSE Err("invalid_hex", name)
       ELSE IF name \in DOMAIN table
       THEN IF fuel = 0 THEN Overflow
            ELSE ResolveColorFrom(table, table[name], fuel - 1)
       ELSE Err("unknown_color", name)

ResolveColor(table, color_str) == ResolveColorFrom(table, color_str, MaxResolveDepth)

Sgr(body) == <<ESC, "[">> \o body \o <<"m">>

Rgb(c) == Dec(c[1]) \o <<";">> \o Dec(c[2]) \o <<";">> \o Dec(c[3])

GetOpeningCode(table, tag) ==
    CASE tag.name \in {"bold", "b"} -> Ok(Sgr(<<"1">>))
      [] tag.name \in {"dim", "d"} -> Ok(Sgr(<<"2">>))
      [] tag.name \in {"italic", "em", "i"} -> Ok(Sgr(<<"3">>))
      [] tag.name \in {"underline", "u"} -> Ok(Sgr(<<"4">>))
      [] tag.name = "fg" ->
            IF tag.args.some
            THEN LET c == ResolveColor(table, tag.args.v)
                 IN IF c.st = "ok" THEN Ok(Sgr(Chars("38;2;") \o Rgb(c.v))) ELSE c
            ELSE Err("missing_argument", "fg")
      [] tag.name = "bg" ->
            IF tag.args.some
            THEN LET c == ResolveColor(table, tag.args.v)
                 IN IF c.st = "ok" THEN Ok(Sgr(Chars("48;2;") \o Rgb(c.v))) ELSE c
            ELSE Err("missing_argument", "bg")
      [] tag.name = "sym" ->
            IF tag.args.some
            THEN ResolveSymbol(tag.args.v)
            ELSE Err("missing_argument", "sym")
      [] OTHER -> Err("unknown_tag", tag.name)

GetClosingCodeResetsAll(name) == Ok(Sgr(Chars("0")))

GetClosingCode(name) ==
    CASE name \in {"bold", "b"} -> Ok(Sgr(Chars("22")))
      [] name \in {"dim", "d"} -> Ok(Sgr(Chars("22")))
      [] name \in {"italic", "em", "i"} -> Ok(Sgr(Chars("23")))
      [] name \in {"underline", "u"} -> Ok(Sgr(Chars("24")))
      [] name = "fg" -> Ok(Sgr(Chars("39")))
      [] name = "bg" -> Ok(Sgr(Chars("49")))
      [] name = "sym" -> Ok(<<>>)
      [] OTHER -> Err("unknown_tag", name)

----------------------------------------------------------------------------
(* TemplatePreprocessor::parse_style_tag *)

ValidStyles == {"bold", "b", "em", "i", "d", "u", "dim", "italic",
                "underline", "fg", "bg", "sym"}

\* a name scan that stops after one letter
SkipOneAlphabetic(cs, k) ==
    IF k < Len(cs) /\ IsAlphabetic(At(cs, k)) THEN k + 1 ELSE k

RECURSIVE SkipAlphabetic(_, _)
SkipAlphabetic(cs, k) ==
    IF k < Len(cs) /\ IsAlphabetic(At(cs, k)) THEN SkipAlphabetic(cs, k + 1) ELSE k

RECURSIVE SkipWhitespace(_, _)
SkipWhitespace(cs, k) ==
    IF k < Len(cs) /\ IsWhitespace(At(cs, k)) THEN SkipWhitespace(cs, k + 1) ELSE k

RECURSIVE SkipUntil(_, _, _)
SkipUntil(cs, k, c) ==
    IF k < Len(cs) /\ At(cs, k) # c THEN SkipUntil(cs, k + 1, c) ELSE k

ParseStyleTag(cs, start) ==
    LET n == Len(cs)
        is_closing == start + 1 < n /\ At(cs, start + 1) = "/"
        name_start == IF is_closing THEN start + 2 ELSE start + 1
        name_end == SkipAlphabetic(cs, name_start)
        name == Str(Slice(cs, name_start, name_end))
        args_start == SkipWhitespace(cs, name_end)
        args_end == IF is_closing THEN args_start ELSE SkipUntil(cs, args_start, ")")
        args == Slice(cs, args_start, args_end)
    IN IF At(cs, start) # "(" THEN None
       ELSE IF name = "" THEN None
       ELSE IF name \notin ValidStyles THEN None
       ELSE IF args_end >= n \/ At(cs, args_end) # ")" THEN None
       ELSE Some([tag |-> [name |-> name,
                           args |-> IF args = <<>> THEN None ELSE Some(Trim(args)),
                           is_closing |-> is_closing],
                  end |-> args_end + 1])


----------------------------------------------------------------------------
(* TemplatePreprocessor: segment definitions and references *)

SegOpen == Chars("{{segment")
SegEnd == Chars("{{endsegment")
Quote == Chars("\"")

\* extract_param: the quoted value that follows key
ExtractParam(params, key) ==
    LET key_pos == FindFrom(params, key, 0)
        value_start == key_pos + Len(key)
        start_quote == FindFrom(params, Quote, value_start)
        end_quote == FindFrom(params, Quote, start_quote + 1)
    IN IF key_pos < 0 THEN Err("missing_parameter", Str(key))
       ELSE IF start_quote < 0 THEN Err("unquoted_parameter", Str(key))
       ELSE IF end_quote < 0 THEN Err("unclosed_quote", Str(key))
       ELSE Ok(Slice(params, start_quote + 1, end_quote))

OptParam(params, key) ==
    LET r == ExtractParam(params, key) IN IF r.st = "ok" THEN Some(r.v) ELSE None

\* parse_segment_params: "name" bg="color" fg="color" sep="shape" left_cap="shape"
ParseSegmentParams(params_str) ==
    LET params == Trim(params_str)
        name_start == FindFrom(params, Quote, 0)
        name_end == FindFrom(params, Quote, name_start + 1)
    IN IF name_start < 0 THEN Err("segment_name", "missing")
       ELSE IF name_end < 0 THEN Err("segment_name", "unclosed quote")
       ELSE Ok([name |-> Str(Slice(params, name_start + 1, name_end)),
                bg |-> OptParam(params, Chars("bg=")),
                fg |-> OptParam(params, Chars("fg=")),
                content |-> <<>>,
                sep |-> OptParam(params, Chars("sep=")),
                left_cap |-> OptParam(params, Chars("left_cap="))])

\* HashMap::insert / extend
Insert(map, key, val) ==
    [x \in DOMAIN map \cup {key} |-> IF x = key THEN val ELSE map[x]]

Extend(map, more) ==
    [x \in DOMAIN map \cup DOMAIN more |-> IF x \in DOMAIN more THEN more[x] ELSE map[x]]

EmptyMap == [x \in {} |-> <<>>]

\* the scan for the "}}" that ends the opening tag; -1 when chars[tag_end+1]
\* is read past the end of the vector
RECURSIVE FindTagEnd(_, _)
FindTagEnd(cs, tag_end) ==
    IF tag_end >= Len(cs) THEN tag_end
    ELSE IF At(cs, tag_end) = "}"
    THEN IF tag_end + 1 >= Len(cs) THEN -1
         ELSE IF At(cs, tag_end + 1) = "}" THEN tag_end
         ELSE FindTagEnd(cs, tag_end + 1)
    ELSE FindTagEnd(cs, tag_end + 1)

\* the depth-counting scan for the matching {{endsegment
RECURSIVE FindContentEnd(_, _, _)
FindContentEnd(cs, content_end, depth) ==
    IF ~(content_end < Len(cs) /\ depth > 0)
    THEN [content_end |-> content_end, depth |-> depth]
    ELSE IF content_end + 13 < Len(cs) /\ MatchAt(cs, content_end, SegEnd)
    THEN IF depth - 1 = 0
         THEN [content_end |-> content_end, depth |-> 0]
         ELSE FindContentEnd(cs, content_end + 1, depth - 1)
    ELSE IF content_end + 9 < Len(cs) /\ MatchAt(cs, content_end, SegOpen)
    THEN FindContentEnd(cs, content_end + 1, depth + 1)
    ELSE FindContentEnd(cs, content_end + 1, depth)

\* whether a segment definition is recognised at index k
IsSegmentOpening(cs, k) == k + 9 < Len(cs) /\ MatchAt(cs, k, SegOpen)

RECURSIVE ExtractSegmentsFrom(_, _, _, _)
ExtractSegmentsFrom(cs, k, text, segs) ==
    IF k >= Len(cs) THEN Ok([text |-> text, segments |-> segs])
    ELSE IF IsSegmentOpening(cs, k)
    THEN LET tag_end == FindTagEnd(cs, k + 9)
         IN IF tag_end = -1 THEN Panic
            ELSE IF tag_end >= Len(cs) THEN Err("unclosed_segment", "}}")
            ELSE LET def == ParseSegmentParams(Slice(cs, k + 9, tag_end))
                     body == FindContentEnd(cs, tag_end + 2, 1)
                 IN IF def.st # "ok" THEN def
                    ELSE IF body.depth > 0 THEN Err("unclosed_segment", "{{endsegment}}")
                    ELSE ExtractSegmentsFrom(cs, body.content_end + 14, text,
                            Insert(segs, def.v.name,
                                   [def.v EXCEPT !.content =
                                       Trim(Slice(cs, tag_end + 2, body.content_end))]))
    ELSE LET stop == NextOf(cs, k + 1, {"{"})
         IN ExtractSegmentsFrom(cs, stop, text \o Slice(cs, k, stop), segs)

ExtractSegments(tmpl) == ExtractSegmentsFrom(tmpl, 0, <<>>, EmptyMap)

GetSeparatorSymbol(shape) ==
    LET name == Str(shape)
    IN CASE name \in {"sharp", "triangle"} -> Ok(Chars("@segment_separator"))
         [] name \in {"pill", "round"} -> Ok(Chars("@pill_left"))
         [] name = "slant" -> Ok(Chars("@slant_right"))
         [] name = "flame" -> Ok(Chars("@flame_right"))
         [] name = "none" -> Ok(<<>>)
         [] OTHER -> Err("unknown_shape", name)

\* the glyph of a cap or separator, coloured with the segment's background
CapText(segment, shape) ==
    LET sym == GetSeparatorSymbol(shape)
    IN IF sym.st # "ok" THEN sym
       ELSE IF segment.bg.some
       THEN Ok(Chars("(fg ") \o segment.bg.v \o Chars(")") \o sym.v \o Chars("(/fg)"))
       ELSE sym

RenderSegment(segment) ==
    LET cap == IF segment.left_cap.some THEN CapText(segment, segment.left_cap.v) ELSE Ok(<<>>)
        sep == IF segment.sep.some THEN CapText(segment, segment.sep.v) ELSE Ok(<<>>)
        open_bg == IF segment.bg.some THEN Chars("(bg ") \o segment.bg.v \o Chars(")") ELSE <<>>
        open_fg == IF segment.fg.some THEN Chars("(fg ") \o segment.fg.v \o Chars(")") ELSE <<>>
        close_fg == IF segment.fg.some THEN Chars("(/fg)") ELSE <<>>
        close_bg == IF segment.bg.some THEN Chars("(/bg)") ELSE <<>>
    IN IF cap.st # "ok" THEN cap
       ELSE IF sep.st # "ok" THEN sep
       ELSE Ok(cap.v \o open_bg \o open_fg \o <<" ">> \o segment.content \o <<" ">>
               \o close_fg \o close_bg \o sep.v)

SegRef == Chars("{{seg:")

RECURSIVE ExpandSegmentReferencesFrom(_, _, _, _)
ExpandSegmentReferencesFrom(segs, cs, k, text) ==
    IF k >= Len(cs) THEN Ok(text)
    ELSE IF k + 6 < Len(cs) /\ MatchAt(cs, k, SegRef)
    THEN LET name_end == SkipUntil(cs, k + 6, "}")
             name == Str(Trim(Slice(cs, k + 6, name_end)))
         IN IF name_end >= Len(cs) \/ name_end + 1 >= Len(cs)
               \/ At(cs, name_end) # "}" \/ At(cs, name_end + 1) # "}"
            THEN Err("unclosed_reference", "{{seg:name}}")
            ELSE IF name \in DOMAIN segs
            THEN LET expanded == RenderSegment(segs[name])
                 IN IF expanded.st # "ok" THEN expanded
                    ELSE ExpandSegmentReferencesFrom(segs, cs, name_end + 2,
                                                     text \o expanded.v)
            ELSE Err("unknown_segment", name)
    ELSE LET stop == NextOf(cs, k + 1, {"{"})
         IN ExpandSegmentReferencesFrom(segs, cs, stop, text \o Slice(cs, k, stop))

ExpandSegmentReferences(segs, tmpl) == ExpandSegmentReferencesFrom(segs, tmpl, 0, <<>>)

----------------------------------------------------------------------------
(* Expression blocks are copied verbatim by the symbol and style scans *)

\* the index just past the block that starts at k: past its "}}", or the end
RECURSIVE BlockEnd(_, _)
BlockEnd(cs, k) ==
    IF k >= Len(cs) THEN k
    ELSE IF k + 1 < Len(cs) /\ At(cs, k) = "}" /\ At(cs, k + 1) = "}" THEN k + 2
    ELSE BlockEnd(cs, k + 1)

IsBlockStart(cs, k) == k + 1 < Len(cs) /\ At(cs, k) = "{" /\ At(cs, k + 1) = "{"

RECURSIVE SkipSymbolName(_, _)
SkipSymbolName(cs, k) ==
    IF k < Len(cs) /\ (IsAlphanumeric(At(cs, k)) \/ At(cs, k) = "_")
    THEN SkipSymbolName(cs, k + 1) ELSE k

\* theme symbols first, then the built-in table
LookupSymbol(table, name) ==
    IF Str(name) \in DOMAIN table THEN Ok(table[Str(name)])
    ELSE LET builtin == ResolveSymbol(name)
         IN IF builtin.st = "ok" THEN builtin ELSE Err("unknown_symbol", Str(name))

RECURSIVE ProcessSymbolShortcutsFrom(_, _, _, _)
ProcessSymbolShortcutsFrom(table, cs, k, text) ==
    IF k >= Len(cs) THEN Ok(text)
    ELSE IF IsBlockStart(cs, k)
    THEN ProcessSymbolShortcutsFrom(table, cs, BlockEnd(cs, k + 1),
                                    text \o Slice(cs, k, BlockEnd(cs, k + 1)))
    ELSE IF At(cs, k) = "@"
    THEN LET name_end == SkipSymbolName(cs, k + 1)
             sym == LookupSymbol(table, Slice(cs, k + 1, name_end))
         IN IF name_end = k + 1
            THEN ProcessSymbolShortcutsFrom(table, cs, k + 1, Append(text, "@"))
            ELSE IF sym.st # "ok" THEN sym
            ELSE ProcessSymbolShortcutsFrom(table, cs, name_end, text \o sym.v)
    ELSE LET stop == NextOf(cs, k + 1, {"{", "@"})
         IN ProcessSymbolShortcutsFrom(table, cs, stop, text \o Slice(cs, k, stop))

ProcessSymbolShortcuts(table, tmpl) == ProcessSymbolShortcutsFrom(table, tmpl, 0, <<>>)

----------------------------------------------------------------------------
(* TemplatePreprocessor::process_styles, one loop iteration per step *)

\* Iterator::rposition: the last open tag of that name, or 0
LastOpen(stack, name) ==
    LET hits == {k \in 1..Len(stack) : stack[k].name = name}
    IN IF hits = {} THEN 0 ELSE CHOOSE k \in hits : \A j \in hits : j <= k

RemoveAt(stack, idx) == SubSeq(stack, 1, idx - 1) \o SubSeq(stack, idx + 1, Len(stack))

\* the stack after a closing tag, matched or not
CloseTagPopsTop(stack, name) ==
    IF LastOpen(stack, name) > 0 THEN RemoveAt(stack, LastOpen(stack, name))
    ELSE SubSeq(stack, 1, Len(stack) - 1)

CloseTag(stack, name) ==
    IF LastOpen(stack, name) > 0 THEN RemoveAt(stack, LastOpen(stack, name))
    ELSE stack

\* the stack after an opening tag: symbols are not pushed
OpenTag(stack, tag) == IF tag.name # "sym" THEN Append(stack, tag) ELSE stack

TagNames(stack) == [k \in 1..Len(stack) |-> stack[k].name]

\* the check at the end of the scan
UnclosedCheckLenient(stack, text) == Ok(text)

UnclosedCheck(stack, text) ==
    IF stack # <<>> THEN Err("unclosed", TagNames(stack)) ELSE Ok(text)

Scanning == pc = "styles" /\ i < Len(chars)

TagAt == IF Scanning /\ ~IsBlockStart(chars, i) /\ At(chars, i) = "("
         THEN ParseStyleTag(chars, i) ELSE None

StylesBlock ==
    /\ Scanning
    /\ IsBlockStart(chars, i)
    /\ output' = output \o Slice(chars, i, BlockEnd(chars, i + 1))
    /\ i' = BlockEnd(chars, i + 1)
    /\ UNCHANGED <<template, colors, symbols, segments, pc, chars, style_stack,
                   result, rendered, extracted, bufVars, rpVars, callVars, histVars, regVars>>

StylesClosingTag ==
    /\ Scanning
    /\ TagAt.some
    /\ TagAt.v.tag.is_closing
    /\ LET code == GetClosingCode(TagAt.v.tag.name)
       IN IF code.st = "ok"
          THEN /\ output' = output \o code.v
               /\ style_stack' = CloseTag(style_stack, TagAt.v.tag.name)
               /\ i' = TagAt.v.end
               /\ UNCHANGED <<pc, result>>
          ELSE /\ result' = code
               /\ pc' = "done"
               /\ UNCHANGED <<output, style_stack, i>>
    /\ UNCHANGED <<template, colors, symbols, segments, chars, rendered,
                   extracted, bufVars, rpVars, callVars, histVars, regVars>>

StylesOpeningTag ==
    /\ Scanning
    /\ TagAt.some
    /\ ~TagAt.v.tag.is_closing
    /\ LET code == GetOpeningCode(colors, TagAt.v.tag)
       IN IF code.st = "ok"
          THEN /\ output' = output \o code.v
               /\ style_stack' = OpenTag(style_stack, TagAt.v.tag)
               /\ i' = TagAt.v.end
               /\ UNCHANGED <<pc, result>>
          ELSE /\ result' = code
               /\ pc' = "done"
               /\ UNCHANGED <<output, style_stack, i>>
    /\ UNCHANGED <<template, colors, symbols, segments, chars, rendered,
                   extracted, bufVars, rpVars, callVars, histVars, regVars>>

StylesLiteral ==
    /\ Scanning
    /\ ~IsBlockStart(chars, i)
    /\ ~TagAt.some
    /\ output' = Append(output, At(chars, i))
    /\ i' = i + 1
    /\ UNCHANGED <<template, colors, symbols, segments, pc, chars, style_stack,
                   result, rendered, extracted, bufVars, rpVars, callVars, histVars, regVars>>

StylesFinish ==
    /\ pc = "styles"
    /\ i >= Len(chars)
    /\ result' = UnclosedCheck(style_stack, output)
    /\ pc' = IF result'.st = "ok" THEN "render" ELSE "done"
    /\ UNCHANGED <<template, colors, symbols, segments, chars, i, output,
                   style_stack, rendered, extracted, bufVars, rpVars, callVars, histVars, regVars>>

----------------------------------------------------------------------------
(* TemplatePreprocessor::preprocess: the three phases before the style scan *)

Fail(r) ==
    /\ result' = r
    /\ pc' = "done"
    /\ UNCHANGED <<chars, segments>>

PreExtract ==
    /\ pc = "extract"
    /\ extracted' = ExtractSegments(template)
    /\ LET r == extracted'
       IN IF r.st = "ok"
          THEN /\ chars' = r.v.text
               /\ segments' = Extend(segments, r.v.segments)
               /\ pc' = "expand"
               /\ UNCHANGED result
          ELSE Fail(r)
    /\ UNCHANGED <<template, colors, symbols, i, output, style_stack, rendered,
                   bufVars, rpVars, callVars, histVars, regVars>>

PreExpand ==
    /\ pc = "expand"
    /\ LET r == ExpandSegmentReferences(segments, chars)
       IN IF r.st = "ok"
          THEN /\ chars' = r.v
               /\ pc' = "symbols"
               /\ UNCHANGED <<result, segments>>
          ELSE Fail(r)
    /\ UNCHANGED <<template, colors, symbols, i, output, style_stack, rendered,
                   extracted, bufVars, rpVars, callVars, histVars, regVars>>

PreSymbols ==
    /\ pc = "symbols"
    /\ LET r == ProcessSymbolShortcuts(symbols, chars)
       IN IF r.st = "ok"
          THEN /\ chars' = r.v
               /\ pc' = "styles"
               /\ UNCHANGED <<result, segments>>
          ELSE Fail(r)
    /\ UNCHANGED <<template, colors, symbols, i, output, style_stack, rendered,
                   extracted, bufVars, rpVars, callVars, histVars, regVars>>

----------------------------------------------------------------------------
(* TemplateEngine::register_template then render, and strip_ansi *)

IsIdentifier(cs) ==
    cs # <<>> /\ \A k \in 1..Len(cs) : IsAlphanumeric(cs[k]) \/ cs[k] \in {"_", "."}

\* The expression engine on the fragment the templates here use: text outside
\* {{ }} is copied, {{name}} is the context value of name or nothing when the
\* context has none, an unterminated {{ does not parse.
RECURSIVE HbRenderFrom(_, _, _, _)
HbRenderFrom(ctx, cs, k, text) ==
    IF k >= Len(cs) THEN Ok(text)
    ELSE IF IsBlockStart(cs, k)
    THEN LET close == FindFrom(cs, Chars("}}"), k + 2)
             inner == Trim(Slice(cs, k + 2, close))
         IN IF close < 0 THEN Err("template_syntax", "{{")
            ELSE IF ~IsIdentifier(inner) THEN Err("template_syntax", Str(inner))
            ELSE HbRenderFrom(ctx, cs, close + 2,
                    text \o (IF Str(inner) \in DOMAIN ctx THEN ctx[Str(inner)] ELSE <<>>))
    ELSE LET stop == NextOf(cs, k + 1, {"{"})
         IN HbRenderFrom(ctx, cs, stop, text \o Slice(cs, k, stop))

HbRender(ctx, processed) == HbRenderFrom(ctx, processed, 0, <<>>)

\* strip_ansi from index k, outside an escape: an escape runs from ESC to the
\* first m after it, everything else is kept
RECURSIVE StripAnsiFrom(_, _, _)
StripAnsiFrom(cs, k, text) ==
    IF k >= Len(cs) THEN text
    ELSE IF At(cs, k) = ESC THEN StripAnsiFrom(cs, NextOf(cs, k + 1, {"m"}) + 1, text)
    ELSE LET stop == NextOf(cs, k + 1, {ESC})
         IN StripAnsiFrom(cs, stop, text \o Slice(cs, k, stop))

StripAnsiDropsEscOnly(text) == SelectSeq(text, LAMBDA c : c # ESC)

StripAnsi(text) == StripAnsiFrom(text, 0, <<>>)

\* evaluation with an empty context
Render ==
    /\ pc = "render"
    /\ rendered' = HbRender(EmptyMap, result.v)
    /\ pc' = "done"
    /\ UNCHANGED <<template, colors, symbols, segments, chars, i, output,
                   style_stack, result, extracted, bufVars, rpVars, callVars, histVars, regVars>>

----------------------------------------------------------------------------
(* Templates the preprocessor is run on *)

RECURSIVE Flatten(_)
Flatten(ps) == IF ps = <<>> THEN <<>> ELSE Head(ps) \o Flatten(Tail(ps))

TemplatesOver(pieces, n) ==
    {Flatten(ps) : ps \in UNION {[1..k -> pieces] : k \in 0..n}}

\* the longest template, in pieces
MaxPieces == 3

StylePieces ==
    {Chars("(bold)"), Chars("(/bold)"), Chars("(b)"), Chars("(fg #00ff00)"),
     Chars("(fg nope)"), Chars("(/fg)"), Chars("m (x"), Chars("{{user}}"),
     Chars("(sym home)"), Chars("@")}

NestedStyles == Chars("(bold)(fg #00ff00)Green Bold(/fg) Still Bold(/bold)")

StyleExamples ==
    {NestedStyles, Chars("(bold)text"), Chars("(b)x(/bold)"), Chars("(italic)x(/i)"),
     Chars("(fg accent)x(/fg)"), Chars("(b)(bg #ff0000)test"),
     Chars("(b)(bg #ff0000)test(/bg)(/b)"), Chars("(i)(italic)x(/italic)(/i)")}

ThemeColors ==
    [n \in {"red", "accent"} |-> IF n = "red" THEN Chars("#ff0000") ELSE Chars("red")]

BufIdle ==
    /\ width = 0
    /\ height = 0
    /\ content = <<>>
    /\ styles = <<>>
    /\ bufOp = [op |-> "none"]

RpIdle == rp = [pc |-> "idle"]

CallIdle == call = [pc |-> "idle"]

HistIdle ==
    /\ file = <<>>
    /\ lock = {}
    /\ procs = EmptyMap

RegIdle ==
    /\ modules = EmptyMap
    /\ enabled = <<>>

PreStart(tmpl) ==
    /\ template = tmpl
    /\ colors = ThemeColors
    /\ symbols = EmptyMap
    /\ segments = EmptyMap
    /\ pc = "extract"
    /\ chars = <<>>
    /\ i = 0
    /\ output = <<>>
    /\ style_stack = <<>>
    /\ extracted = [st |-> "none"]
    /\ result = [st |-> "running"]
    /\ rendered = [st |-> "none"]

InitStyles ==
    /\ \E tmpl \in TemplatesOver(StylePieces, MaxPieces) \cup StyleExamples : PreStart(tmpl)
    /\ BufIdle
    /\ RpIdle
    /\ CallIdle
    /\ HistIdle
    /\ RegIdle

NextPre ==
    \/ PreExtract
    \/ PreExpand
    \/ PreSymbols
    \/ StylesBlock
    \/ StylesClosingTag
    \/ StylesOpeningTag
    \/ StylesLiteral
    \/ StylesFinish
    \/ Render

SpecStyles == InitStyles /\ [][NextPre]_vars

----------------------------------------------------------------------------
(* Properties of style-tag resolution *)

RECURSIVE TagsFrom(_, _)
TagsFrom(cs, k) ==
    IF k >= Len(cs) THEN <<>>
    ELSE IF At(cs, k) = "(" /\ ParseStyleTag(cs, k).some
    THEN <<ParseStyleTag(cs, k).v.tag>> \o TagsFrom(cs, ParseStyleTag(cs, k).v.end)
    ELSE TagsFrom(cs, k + 1)

\* the template with every style tag removed
RECURSIVE RemoveStyleTagsFrom(_, _)
RemoveStyleTagsFrom(cs, k) ==
    IF k >= Len(cs) THEN <<>>
    ELSE IF At(cs, k) = "(" /\ ParseStyleTag(cs, k).some
    THEN RemoveStyleTagsFrom(cs, ParseStyleTag(cs, k).v.end)
    ELSE <<At(cs, k)>> \o RemoveStyleTagsFrom(cs, k + 1)

RemoveStyleTags(cs) == RemoveStyleTagsFrom(cs, 0)

StyleKind(name) ==
    CASE name \in {"bold", "b"} -> "bold"
      [] name \in {"dim", "d"} -> "dim"
      [] name \in {"italic", "em", "i"} -> "italic"
      [] name \in {"underline", "u"} -> "underline"
      [] OTHER -> name

KeyOf(name, by_style) == IF by_style THEN StyleKind(name) ELSE name

LastKey(keys, key) ==
    LET hits == {k \in 1..Len(keys) : keys[k] = key}
    IN IF hits = {} THEN 0 ELSE CHOOSE k \in hits : \A j \in hits : j <= k

\* every closing tag closes an open tag and no tag stays open; tags pair up
\* by style (an alias and its long form are one style) or by written name
RECURSIVE BalancedFrom(_, _, _)
BalancedFrom(tags, open, by_style) ==
    IF tags = <<>> THEN open = <<>>
    ELSE LET key == KeyOf(Head(tags).name, by_style)
         IN IF ~Head(tags).is_closing
            THEN BalancedFrom(Tail(tags), Append(open, key), by_style)
            ELSE /\ LastKey(open, key) > 0
                 /\ BalancedFrom(Tail(tags), RemoveAt(open, LastKey(open, key)), by_style)

Balanced(cs, by_style) == BalancedFrom(TagsFrom(cs, 0), <<>>, by_style)

\* only literal text and style tags: no expression block, no escape
\* character, no @symbol and no sym tag
PlainStyled(cs) ==
    /\ ~Contains(cs, Chars("{{"))
    /\ \A k \in 1..Len(cs) : cs[k] # ESC
    /\ \A k \in 0..(Len(cs) - 1) : At(cs, k) = "@" => SkipSymbolName(cs, k + 1) = k + 1
    /\ \A k \in 1..Len(TagsFrom(cs, 0)) : TagsFrom(cs, 0)[k].name # "sym"

\* every fg and bg opening tag has a colour argument that resolves
ColoursResolve(table, cs) ==
    \A k \in 1..Len(TagsFrom(cs, 0)) :
        LET tag == TagsFrom(cs, 0)[k]
        IN (tag.name \in {"fg", "bg"} /\ ~tag.is_closing)
              => tag.args.some /\ ResolveColor(table, tag.args.v).st = "ok"

RoundTrips ==
    /\ result.st = "ok"
    /\ rendered.st = "ok"
    /\ StripAnsi(rendered.v) = RemoveStyleTags(template)

\* C7 as stated: every template of literal text and balanced style tags
\* preprocesses and evaluates, and the stripped output is the template
\* without its tags.
C7_Original ==
    (pc = "done" /\ PlainStyled(template) /\ Balanced(template, TRUE)) => RoundTrips

\* C7 as amended: for every template of literal text and style tags in which
\* each closing tag closes an open tag of the same written name, no tag stays
\* open and every fg/bg tag has a colour argument that resolves, preprocessing
\* followed by evaluation with an empty context succeeds and strip_ansi of
\* the output is the template with every style tag removed.
C7_RoundTrip ==
    (pc = "done" /\ PlainStyled(template) /\ Balanced(template, FALSE)
        /\ ColoursResolve(colors, template)) => RoundTrips

C7_Witness ==
    /\ pc = "done"
    /\ template = NestedStyles
    /\ PlainStyled(template) /\ Balanced(template, FALSE)
    /\ ColoursResolve(colors, template)
    /\ rendered.st = "ok"
    /\ StripAnsi(rendered.v) = Chars("Green Bold Still Bold")

NestedStylesCodes ==
    Sgr(Chars("1")) \o Sgr(Chars("38;2;0;255;0")) \o Chars("Green Bold")
    \o Sgr(Chars("39")) \o Chars(" Still Bold") \o Sgr(Chars("22"))

IsPrefix(a, b) == Len(a) <= Len(b) /\ SubSeq(b, 1, Len(a)) = a

\* C8: on "(bold)(fg #00ff00)Green Bold(/fg) Still Bold(/bold)" the output
\* grows, at every step of the scan, as a prefix of ESC[1m, ESC[38;2;0;255;0m,
\* "Green Bold", ESC[39m, " Still Bold", ESC[22m, and the preprocessed and
\* the rendered text are exactly that sequence: each tag is replaced in place
\* by its code and the text between the tags is copied unchanged.
C8_NestedOrder ==
    template = NestedStyles =>
        /\ IsPrefix(output, NestedStylesCodes)
        /\ pc \in {"render", "done"} => result = Ok(NestedStylesCodes)
        /\ pc = "done" => rendered = Ok(NestedStylesCodes)

C8_Witness ==
    /\ template = NestedStyles
    /\ pc = "done"
    /\ rendered = Ok(NestedStylesCodes)

\* a closing tag is next in the scan and no open tag has its name
UnmatchedClosing ==
    /\ TagAt.some
    /\ TagAt.v.tag.is_closing
    /\ LastOpen(style_stack, TagAt.v.tag.name) = 0

C10_Step ==
    UnmatchedClosing =>
        /\ style_stack' = style_stack
        /\ output' = output \o GetClosingCode(TagAt.v.tag.name).v
        /\ i' = TagAt.v.end
        /\ pc' = "styles"
        /\ result' = result

\* C10: a step of the style scan at a closing tag that no open tag matches
\* appends that tag's reset code to the output, leaves the stack of open tags
\* unchanged, raises no error and moves the scan past the tag.
C10_UnmatchedClosingTolerated == [][C10_Step]_vars

C10_Witness ==
    /\ template = Chars("(bold)(/fg)(/bold)")
    /\ pc = "done"
    /\ result = Ok(Sgr(Chars("1")) \o Sgr(Chars("39")) \o Sgr(Chars("22")))

----------------------------------------------------------------------------
(* Properties of segment extraction *)

SegPieces ==
    {Chars("{{segment \"a\"}}"), Chars("{{segment \"a\""), Chars("{{segment"),
     Chars("}"), Chars("{{endsegment}}"), Chars("{{seg:a}}"), Chars("(b)"),
     Chars("(/b)"), Chars("x y")}

InitSeg ==
    /\ \E tmpl \in TemplatesOver(SegPieces, MaxPieces) : PreStart(tmpl)
    /\ BufIdle
    /\ RpIdle
    /\ CallIdle
    /\ HistIdle
    /\ RegIdle

SpecSeg == InitSeg /\ [][NextPre]_vars

\* the template has a {{segment opening with no "}}" after it, or with no
\* {{endsegment}} after it
Unterminated(cs) ==
    \E p \in 0..(Len(cs) - 1) :
        /\ MatchAt(cs, p, SegOpen)
        /\ \/ FindFrom(cs, Chars("}}"), p + 9) < 0
           \/ FindFrom(cs, Chars("{{endsegment}}"), p + 9) < 0

\* C9 as stated: segment extraction on a template with an unterminated
\* {{segment opening returns a parse error: it neither panics nor returns Ok.
C9_UnterminatedIsError ==
    (pc # "extract" /\ Unterminated(template)) => extracted.st = "err"

----------------------------------------------------------------------------
(* TerminalBuffer.  Buffer text is a sequence of grapheme clusters of one    *)
(* character each: "W" stands for a double-width character, "z" for a        *)
(* zero-width one, every other character is one column wide.  NUL is the     *)
(* continuation marker '\0'.  A style is the text of an SGR sequence, the    *)
(* empty text for none.                                                      *)

NUL == "NUL"

\* UnicodeWidthStr::width of one character
CharWidth(c) == CASE c = "W" -> 2 [] c = "z" -> 0 [] c = NUL -> 0 [] OTHER -> 1

\* the sum of the widths of text[lo..hi]
RECURSIVE WidthOfRange(_, _, _)
WidthOfRange(text, lo, hi) ==
    IF lo > hi THEN 0
    ELSE IF lo = hi THEN CharWidth(text[lo])
    ELSE WidthOfRange(text, lo, (lo + hi) \div 2) + WidthOfRange(text, (lo + hi) \div 2 + 1, hi)

StrWidth(text) == WidthOfRange(text, 1, Len(text))

U16(n) == n % 65536
SatSub(a, b) == IF a >= b THEN a - b ELSE 0

BlankRow(w) == [c \in 1..w |-> " "]
NoStyleRow(w) == [c \in 1..w |-> <<>>]

\* with_dimensions
NewBuffer(w, h) ==
    [width |-> w, height |-> h,
     content |-> [r \in 1..h |-> BlankRow(w)],
     styles |-> [r \in 1..h |-> NoStyleRow(w)]]

\* the continuation cells of a wide cluster
RECURSIVE FillContinuation(_, _, _, _, _)
FillContinuation(row, col, left, style, w) ==
    IF left = 0 THEN row
    ELSE IF col < w
    THEN FillContinuation(
            [row EXCEPT !.cells[col + 1] = NUL, !.sty[col + 1] = style,
                        !.cols = @ \cup {col}, !.col = col + 1],
            col + 1, left - 1, style, w)
    ELSE FillContinuation(row, col, left - 1, style, w)

\* the loop of write_at over the clusters of text, from column row.col
RECURSIVE WriteClusters(_, _, _, _)
WriteClusters(row, text, style, w) ==
    IF text = <<>> THEN row
    ELSE LET cw == CharWidth(Head(text))
             lead == [row EXCEPT !.cells[row.col + 1] = Head(text),
                                 !.sty[row.col + 1] = style,
                                 !.cols = @ \cup {row.col},
                                 !.col = row.col + 1]
         IN IF row.col + cw > w THEN row
            ELSE IF cw > 0
            THEN WriteClusters(FillContinuation(lead, lead.col, cw - 1, style, w),
                               Tail(text), style, w)
            ELSE WriteClusters(row, Tail(text), style, w)

UnwrapStyle(style) == IF style.some THEN style.v ELSE <<>>

\* write_at: the buffer after the write, and the columns it wrote
WriteAt(buf, row, col, text, style) ==
    IF row >= buf.height \/ col >= buf.width
    THEN [buf |-> buf, cols |-> {}]
    ELSE LET done == WriteClusters(
                        [cells |-> buf.content[row + 1], sty |-> buf.styles[row + 1],
                         col |-> col, cols |-> {}],
                        text, UnwrapStyle(style), buf.width)
         IN [buf |-> [buf EXCEPT !.content[row + 1] = done.cells,
                                 !.styles[row + 1] = done.sty],
             cols |-> done.cols]

AlignedCol(w, text, alignment) ==
    CASE alignment = "Left" -> 0
      [] alignment = "Center" -> SatSub(w, U16(StrWidth(text))) \div 2
      [] alignment = "Right" -> SatSub(w, U16(StrWidth(text)))

WriteAligned(buf, row, text, alignment, style) ==
    WriteAt(buf, row, AlignedCol(buf.width, text, alignment), text, style)

UnwrapText(text) == IF text.some THEN text.v ELSE <<>>

\* the start column of the center section
CenterCol(w, left_width, center_width) ==
    U16(Max(SatSub(w, center_width) \div 2, left_width + 1))

\* the start column of the right section
RightCol(w, left_width, center_width, right_width, has_center) ==
    LET right_pos == SatSub(w, right_width)
        min_right_pos ==
            IF has_center
            THEN Min((SatSub(w, center_width) \div 2) + center_width + 1, right_pos)
            ELSE right_pos
    IN U16(Max(min_right_pos, left_width + 1))

\* write_three_sections: the buffer after it and the columns of each section
WriteThreeSections(buf, row, left, center, right, left_style, center_style, right_style) ==
    LET left_text == UnwrapText(left)
        center_text == UnwrapText(center)
        right_text == UnwrapText(right)
        left_width == StrWidth(left_text)
        center_width == StrWidth(center_text)
        right_width == StrWidth(right_text)
        l == IF left_text # <<>>
             THEN WriteAt(buf, row, 0, left_text, left_style)
             ELSE [buf |-> buf, cols |-> {}]
        c == IF center_text # <<>>
             THEN WriteAt(l.buf, row, CenterCol(buf.width, left_width, center_width),
                          center_text, center_style)
             ELSE [buf |-> l.buf, cols |-> {}]
        r == IF right_text # <<>>
             THEN WriteAt(c.buf, row,
                          RightCol(buf.width, left_width, center_width, right_width,
                                   center_text # <<>>),
                          right_text, right_style)
             ELSE [buf |-> c.buf, cols |-> {}]
    IN [buf |-> r.buf, left |-> l.cols, center |-> c.cols, right |-> r.cols]

ClearLine(buf, row) ==
    IF row < buf.height
    THEN [buf EXCEPT !.content[row + 1] = BlankRow(buf.width),
                     !.styles[row + 1] = NoStyleRow(buf.width)]
    ELSE buf

Clear(buf) == NewBuffer(buf.width, buf.height)

Reset == Sgr(Chars("0"))

\* the cells of one row from column `col` up to column `last`, as render and
\* render_line emit them
RECURSIVE RenderCells(_, _, _, _, _, _)
RenderCells(cells, sty, col, last, last_style, text) ==
    IF col > last
    THEN IF last_style # <<>> THEN text \o Reset ELSE text
    ELSE IF cells[col + 1] = NUL
    THEN RenderCells(cells, sty, col + 1, last, last_style, text)
    ELSE IF sty[col + 1] # last_style
    THEN RenderCells(cells, sty, col + 1, last, sty[col + 1],
                     text \o (IF last_style # <<>> THEN Reset ELSE <<>>)
                          \o sty[col + 1] \o <<cells[col + 1]>>)
    ELSE RenderCells(cells, sty, col + 1, last, last_style, Append(text, cells[col + 1]))

RenderRow(buf, row) ==
    RenderCells(buf.content[row + 1], buf.styles[row + 1], 0, buf.width - 1, <<>>, <<>>)

RECURSIVE RenderRows(_, _)
RenderRows(buf, row) ==
    IF row >= buf.height THEN <<>>
    ELSE RenderRow(buf, row)
         \o (IF row < buf.height - 1 THEN <<"\n">> ELSE <<>>)
         \o RenderRows(buf, row + 1)

\* render
RenderBuffer(buf) == Ok(RenderRows(buf, 0))

\* the last column of the row that is not a space, 0 when there is none
LastNonSpace(cells) ==
    LET hits == {c \in 0..(Len(cells) - 1) : cells[c + 1] # " "}
    IN IF hits = {} THEN 0 ELSE CHOOSE c \in hits : \A d \in hits : d <= c

\* render_line: columns 0..=last_non_space are indexed, the first of them
\* even in a row without columns
RenderLine(buf, row) ==
    IF row >= buf.height THEN Ok(<<>>)
    ELSE IF LastNonSpace(buf.content[row + 1]) >= buf.width THEN Panic
    ELSE Ok(RenderCells(buf.content[row + 1], buf.styles[row + 1], 0,
                        LastNonSpace(buf.content[row + 1]), <<>>, <<>>))

NonEmpty(text) == IF text = <<>> THEN None ELSE Some(text)

\* PromptLine::render: a one-row buffer of that width, the three sections,
\* then render_line(0)
PromptLineRender(w, left, center, right, left_style, center_style, right_style) ==
    RenderLine(WriteThreeSections(NewBuffer(w, 1), 0, NonEmpty(left), NonEmpty(center),
                                  NonEmpty(right), NonEmpty(left_style),
                                  NonEmpty(center_style), NonEmpty(right_style)).buf, 0)

\* visible_width: columns outside ESC ... m sequences
RECURSIVE VisibleWidthFrom(_, _)
VisibleWidthFrom(cs, k) ==
    IF k >= Len(cs) THEN 0
    ELSE IF At(cs, k) = ESC THEN VisibleWidthFrom(cs, NextOf(cs, k + 1, {"m"}) + 1)
    ELSE LET stop == NextOf(cs, k + 1, {ESC})
         IN StrWidth(Slice(cs, k, stop)) + VisibleWidthFrom(cs, stop)

\* a width that drops the ESC characters only and counts what follows them
VisibleWidthDropsEscOnly(text) == StrWidth(SelectSeq(text, LAMBDA c : c # ESC))

VisibleWidth(text) == VisibleWidthFrom(text, 0)

----------------------------------------------------------------------------
(* The buffer as a state machine *)

Buf == [width |-> width, height |-> height, content |-> content, styles |-> styles]

SetBuf(buf) ==
    /\ content' = buf.content
    /\ styles' = buf.styles
    /\ UNCHANGED <<width, height>>

\* the widest and the tallest buffer, and the longest text written
MaxWidth == 3
MaxHeight == 1
MaxText == 2

TextsOver(clusters, n) == UNION {[1..k -> clusters] : k \in 0..n}

BufTexts == TextsOver({"a", "W", "z"}, MaxText)
SectionTexts == TextsOver({"a", "W"}, 1)
BufStyles == {None, Some(Sgr(Chars("1")))}
OptTexts(texts) == {None} \cup {Some(t) : t \in texts}

Alive == bufOp.op # "none" => bufOp.st = "ok"

InitBuf ==
    /\ \E w \in 0..MaxWidth, h \in 0..MaxHeight :
          /\ width = w
          /\ height = h
          /\ content = NewBuffer(w, h).content
          /\ styles = NewBuffer(w, h).styles
    /\ bufOp = [op |-> "none"]
    /\ PreStart(<<>>)
    /\ RpIdle
    /\ CallIdle
    /\ HistIdle
    /\ RegIdle

BufWriteAt ==
    /\ Alive
    /\ \E row \in 0..height, col \in 0..width, text \in BufTexts, style \in BufStyles :
          /\ SetBuf(WriteAt(Buf, row, col, text, style).buf)
          /\ bufOp' = [op |-> "write_at", st |-> "ok",
                       inside |-> row < height /\ col < width]
    /\ UNCHANGED <<preVars, rpVars, callVars, histVars, regVars>>

BufWriteAligned ==
    /\ Alive
    /\ \E row \in 0..height, text \in BufTexts, style \in BufStyles,
          alignment \in {"Left", "Center", "Right"} :
          /\ SetBuf(WriteAligned(Buf, row, text, alignment, style).buf)
          /\ bufOp' = [op |-> "write_aligned", st |-> "ok"]
    /\ UNCHANGED <<preVars, rpVars, callVars, histVars, regVars>>

BufWriteThreeSections ==
    /\ Alive
    /\ \E row \in 0..height, style \in BufStyles :
       \E left \in OptTexts(SectionTexts), center \in OptTexts(SectionTexts),
          right \in OptTexts(SectionTexts) :
          LET r == WriteThreeSections(Buf, row, left, center, right, style, None, style)
          IN /\ SetBuf(r.buf)
             /\ bufOp' = [op |-> "write_three_sections", st |-> "ok"]
    /\ UNCHANGED <<preVars, rpVars, callVars, histVars, regVars>>

BufClearLine ==
    /\ Alive
    /\ \E row \in 0..height :
          /\ SetBuf(ClearLine(Buf, row))
          /\ bufOp' = [op |-> "clear_line", st |-> "ok"]
    /\ UNCHANGED <<preVars, rpVars, callVars, histVars, regVars>>

BufClear ==
    /\ Alive
    /\ SetBuf(Clear(Buf))
    /\ bufOp' = [op |-> "clear", st |-> "ok"]
    /\ UNCHANGED <<preVars, rpVars, callVars, histVars, regVars>>

BufRender ==
    /\ Alive
    /\ bufOp' = [op |-> "render", st |-> RenderBuffer(Buf).st, out |-> RenderBuffer(Buf)]
    /\ UNCHANGED <<width, height, content, styles, preVars, rpVars, callVars, histVars, regVars>>

BufRenderLine ==
    /\ Alive
    /\ \E row \in 0..height :
          bufOp' = [op |-> "render_line", st |-> RenderLine(Buf, row).st,
                    out |-> RenderLine(Buf, row)]
    /\ UNCHANGED <<width, height, content, styles, preVars, rpVars, callVars, histVars, regVars>>

NextBuf ==
    \/ BufWriteAt
    \/ BufWriteAligned
    \/ BufWriteThreeSections
    \/ BufClearLine
    \/ BufClear
    \/ BufRender
    \/ BufRenderLine

SpecBuf == InitBuf /\ [][NextBuf]_vars

(* One prompt line: a fresh one-row buffer, write_three_sections, render_line *)

\* the widest prompt line
LayoutWidth == 6

LayoutTexts == TextsOver({"a", "W"}, MaxText)
LayoutStyles == {<<None, None, None>>,
                 <<Some(Sgr(Chars("1"))), Some(Sgr(Chars("2"))), Some(Sgr(Chars("4")))>>}

InitLayout ==
    /\ \E w \in 0..LayoutWidth :
          /\ width = w
          /\ height = 1
          /\ content = NewBuffer(w, 1).content
          /\ styles = NewBuffer(w, 1).styles
    /\ bufOp = [op |-> "none"]
    /\ PreStart(<<>>)
    /\ RpIdle
    /\ CallIdle
    /\ HistIdle
    /\ RegIdle

LayoutWrite ==
    /\ bufOp.op = "none"
    /\ \E left \in OptTexts(LayoutTexts), center \in OptTexts(LayoutTexts),
          right \in OptTexts(LayoutTexts), sty \in LayoutStyles :
          LET r == WriteThreeSections(Buf, 0, left, center, right, sty[1], sty[2], sty[3])
          IN /\ SetBuf(r.buf)
             /\ bufOp' = [op |-> "write_three_sections", st |-> "ok",
                          texts |-> <<UnwrapText(left), UnwrapText(center), UnwrapText(right)>>,
                          left |-> r.left, center |-> r.center, right |-> r.right]
    /\ UNCHANGED <<preVars, rpVars, callVars, histVars, regVars>>

LayoutRenderLine ==
    /\ bufOp.op = "write_three_sections"
    /\ bufOp' = [op |-> "render_line", st |-> RenderLine(Buf, 0).st,
                 out |-> RenderLine(Buf, 0)]
    /\ UNCHANGED <<width, height, content, styles, preVars, rpVars, callVars, histVars, regVars>>

NextLayout ==
    \/ LayoutWrite
    \/ LayoutRenderLine

SpecLayout == InitLayout /\ [][NextLayout]_vars

----------------------------------------------------------------------------
(* Properties of the buffer *)

\* C1 as stated: the columns write_three_sections writes for the left, the
\* center and the right section are pairwise disjoint, whatever the width of
\* the buffer and of the three texts.
C1_SectionsDisjoint ==
    bufOp.op = "write_three_sections" =>
        /\ bufOp.left \cap bufOp.center = {}
        /\ bufOp.center \cap bufOp.right = {}
        /\ bufOp.left \cap bufOp.right = {}

IsWide(c) == CharWidth(c) = 2

\* C4 as stated: in every row every continuation marker follows the leading
\* cell of a double-width character, every such leading cell is followed by
\* a marker, and the rendered row is exactly `width` columns wide.
C4_ContinuationCellsPaired ==
    \A r \in 1..height :
        /\ \A c \in 1..width :
              /\ content[r][c] = NUL => c > 1 /\ IsWide(content[r][c - 1])
              /\ IsWide(content[r][c]) => c < width /\ content[r][c + 1] = NUL
        /\ VisibleWidth(RenderRow(Buf, r - 1)) = width

\* an operation returns normally, and a write_at that starts outside the grid
\* changes no cell
C5_Step ==
    /\ bufOp'.st = "ok"
    /\ (bufOp'.op = "write_at" /\ ~bufOp'.inside) => UNCHANGED <<content, styles>>

\* C5 as stated: no buffer operation fails or panics, whatever the dimensions
\* of the buffer (width 0 and height 0 included), the position and the text,
\* and a write_at that starts outside the grid leaves every cell unchanged.
C5_OperationsNeverFail == [][C5_Step]_vars

----------------------------------------------------------------------------
(* preprocess and register_template as functions of the template *)

\* process_styles, the whole scan
RECURSIVE ProcessStylesFrom(_, _, _, _, _)
ProcessStylesFrom(table, cs, k, text, stack) ==
    IF k >= Len(cs) THEN UnclosedCheck(stack, text)
    ELSE IF IsBlockStart(cs, k)
    THEN ProcessStylesFrom(table, cs, BlockEnd(cs, k + 1),
                           text \o Slice(cs, k, BlockEnd(cs, k + 1)), stack)
    ELSE IF At(cs, k) = "(" /\ ParseStyleTag(cs, k).some
    THEN LET tag == ParseStyleTag(cs, k).v.tag
             code == IF tag.is_closing THEN GetClosingCode(tag.name)
                     ELSE GetOpeningCode(table, tag)
         IN IF code.st # "ok" THEN code
            ELSE ProcessStylesFrom(table, cs, ParseStyleTag(cs, k).v.end, text \o code.v,
                    IF tag.is_closing THEN CloseTag(stack, tag.name)
                    ELSE OpenTag(stack, tag))
    ELSE LET stop == NextOf(cs, k + 1, {"{", "("})
         IN ProcessStylesFrom(table, cs, stop, text \o Slice(cs, k, stop), stack)

ProcessStyles(table, tmpl) == ProcessStylesFrom(table, tmpl, 0, <<>>, <<>>)

\* the ? operator: a failure is returned as it is, a value is handed on
Then(r, F(_)) == CHOOSE out \in {IF x.st # "ok" THEN x ELSE F(x.v) : x \in {r}} : TRUE

\* preprocess: the four phases in order, the first failure returned
Preprocess(ctable, stable, segs, tmpl) ==
    Then(Then(Then(ExtractSegments(tmpl),
                   LAMBDA without :
                       ExpandSegmentReferences(Extend(segs, without.segments), without.text)),
              LAMBDA with_segments : ProcessSymbolShortcuts(stable, with_segments)),
         LAMBDA with_symbols : ProcessStyles(ctable, with_symbols))

\* the expression engine's parse of a template text
RegisterTemplateString(processed) ==
    LET parsed == HbRender(EmptyMap, processed)
    IN IF parsed.st # "ok" THEN Err("register", parsed.what) ELSE Ok(processed)

\* register_template: preprocess, then the expression engine parses the text
RegisterTemplate(ctable, stable, segs, tmpl) ==
    Then(Preprocess(ctable, stable, segs, tmpl), RegisterTemplateString)

----------------------------------------------------------------------------
(* render_prompt: loading templates, rendering with fallback, printing *)

NL == "\n"

DefaultMain ==
    Chars("(fg #9ece6a)") \o <<"U+2713">>
        \o Chars("(/fg) (bold)(fg #7aa2f7){{user}}(/fg)(/bold) (fg #c0caf5)in(/fg) ")
        \o Chars("(fg #bb9af7){{pwd_short}}(/fg)") \o <<NL>>
        \o Chars("(fg #7aa2f7)") \o <<"U+276F">> \o Chars("(/fg) ")

DefaultTransient ==
    Chars("(dim){{time}}(/dim)") \o <<NL>> \o Chars("(fg #7aa2f7)") \o <<"U+276F">>
        \o Chars("(/fg) ")

DefaultTemplates ==
    << <<"main", DefaultMain>>, <<"left", <<>> >>, <<"right", <<>> >>,
       <<"transient", DefaultTransient>> >>

\* register_default_templates: the four registrations in order, stopping at
\* the first that fails
RECURSIVE RegisterAll(_, _, _, _, _)
RegisterAll(registry, ctable, stable, segs, todo) ==
    IF todo = <<>> THEN Ok(registry)
    ELSE Then(RegisterTemplate(ctable, stable, segs, Head(todo)[2]),
              LAMBDA processed :
                  RegisterAll(Insert(registry, Head(todo)[1], processed), ctable, stable,
                              segs, Tail(todo)))

RegisterDefaultTemplates(registry, ctable, stable, segs) ==
    RegisterAll(registry, ctable, stable, segs, DefaultTemplates)

\* The configurations of this model define templates only, so the engine's
\* colour, symbol and segment tables are empty. The four registrations do not
\* read what is registered already; they are computed once and laid over the
\* registry.
DefaultRegistration == RegisterDefaultTemplates(EmptyMap, EmptyMap, EmptyMap, EmptyMap)

\* TemplateEngine::render of a registered name
EngineRender(registry, ctx, name) ==
    IF name \notin DOMAIN registry THEN Err("render", name)
    ELSE HbRender(ctx, registry[name])

\* the first line built from the left and right templates
Spaces(n) == [k \in 1..n |-> " "]

\* a first line that pads the left text to the terminal width, whatever the
\* width of the right text
FirstLinePadsLeftOnly(registry, ctx, terminal_width) ==
    LET left_result == EngineRender(registry, ctx, "left")
        right_result == EngineRender(registry, ctx, "right")
    IN IF left_result.st = "ok" /\ right_result.st = "ok" /\ Trim(right_result.v) # <<>>
       THEN left_result.v
                \o Spaces(Max(0, terminal_width - VisibleWidth(left_result.v)))
                \o right_result.v
       ELSE IF left_result.st = "ok" THEN left_result.v
       ELSE <<>>

FirstLine(registry, ctx, terminal_width) ==
    LET left_result == EngineRender(registry, ctx, "left")
        right_result == EngineRender(registry, ctx, "right")
        total_content == VisibleWidth(left_result.v) + VisibleWidth(right_result.v)
    IN IF left_result.st = "ok" /\ right_result.st = "ok" /\ Trim(right_result.v) # <<>>
       THEN IF total_content >= terminal_width THEN left_result.v \o right_result.v
            ELSE left_result.v \o Spaces(terminal_width - total_content) \o right_result.v
       ELSE IF left_result.st = "ok" THEN left_result.v
       ELSE <<>>

\* the minimal prompt printed when the requested template does not render
FallbackPrompt(user, pwd_short) ==
    Sgr(Chars("38;2;137;180;250")) \o user \o Sgr(Chars("39")) \o Chars(" in ")
        \o Sgr(Chars("38;2;189;147;249")) \o pwd_short \o Sgr(Chars("39")) \o <<NL>>
        \o Sgr(Chars("38;2;243;139;168")) \o <<"U+276F">> \o Sgr(Chars("39")) \o <<" ">>

\* convert_to_zsh_format from index k, outside an escape. An escape is
\* collected from its last ESC to the first m and wrapped in %{ %}; one that no
\* m ends is dropped.
RECURSIVE ConvertToZshFrom(_, _, _)
ConvertToZshFrom(cs, k, text) ==
    IF k >= Len(cs) THEN text
    ELSE IF At(cs, k) = ESC
    THEN LET stop == NextOf(cs, k + 1, {"m", ESC})
         IN IF stop >= Len(cs) THEN text
            ELSE IF At(cs, stop) = ESC THEN ConvertToZshFrom(cs, stop, text)
            ELSE ConvertToZshFrom(cs, stop + 1,
                    text \o Chars("%{") \o Slice(cs, k, stop + 1) \o Chars("%}"))
    ELSE LET stop == NextOf(cs, k + 1, {ESC})
         IN ConvertToZshFrom(cs, stop, text \o Slice(cs, k, stop))

ConvertToZshFormat(ansi_str) == ConvertToZshFrom(ansi_str, 0, <<>>)

\* {:?} of one character, and of the characters cs[lo..hi]
DebugChar(c) ==
    CASE c = ESC -> Chars("\\u{1b}")
      [] c = NL -> Chars("\\n")
      [] <<c>> = Quote -> Chars("\\\"")
      [] c = "\\" -> Chars("\\\\")
      [] OTHER -> <<c>>

RECURSIVE DebugEscapeRange(_, _, _)
DebugEscapeRange(cs, lo, hi) ==
    IF lo > hi THEN <<>>
    ELSE IF lo = hi THEN DebugChar(cs[lo])
    ELSE DebugEscapeRange(cs, lo, (lo + hi) \div 2)
             \o DebugEscapeRange(cs, (lo + hi) \div 2 + 1, hi)

DebugEscape(cs) == DebugEscapeRange(cs, 1, Len(cs))

DebugFormat(name, text) ==
    Chars("Template: ") \o Chars(name) \o <<NL>>
        \o Chars("Output: ") \o Quote \o DebugEscape(text) \o Quote \o <<NL>>
        \o Chars("Visible width: ") \o Dec(VisibleWidth(text)) \o <<NL>>

FormatOutput(format, name, text) ==
    CASE format = "zsh" -> ConvertToZshFormat(text)
      [] format = "raw" -> text
      [] format = "debug" -> DebugFormat(name, text)
      [] OTHER -> text

----------------------------------------------------------------------------
(* render_prompt as a state machine *)

\* the theme or configuration text: absent, not a valid configuration, or a
\* table of templates
NoSource == None
BadSource == Some([parses |-> FALSE, templates |-> {}])
Source(templates) == Some([parses |-> TRUE, templates |-> templates])

Sources ==
    {NoSource, BadSource, Source({}),
     Source({<<"main", Chars("(bold){{user}}(/bold) > ")>>}),
     Source({<<"main", Chars("(bold)text")>>}),
     Source({<<"main", Chars("{{segment \"a\"}")>>}),
     Source({<<"main", Chars("{{user")>>}),
     Source({<<"main", <<>> >>}),
     Source({<<"main", Chars("{{first_line}}$ ")>>, <<"left", Chars("{{user}}")>>,
             <<"right", Chars("(dim){{time}}(/dim)")>>}),
     Source({<<"main", Chars("{{first_line}}$ ")>>, <<"left", Chars("{{user}}")>>,
             <<"right", Chars("{{time}}")>>}),
     Source({<<"main", Chars("{{first_line}}$ ")>>, <<"left", Chars("{{user}}")>>,
             <<"right", Chars(" ")>>}),
     Source({<<"main", Chars("> ")>>, <<"transient", Chars("(fg nope)x")>>})}

TemplateNames == {"main", "left", "transient", "nosuch"}
Formats == {"zsh", "raw", "debug", "plain"}
TerminalWidths == {8, 20}

\* USER, and PWD with HOME replaced by ~, as the environment gives them
Environments ==
    {[user |-> None, pwd |-> None], [user |-> Some(Chars("u")), pwd |-> Some(Chars("~/p"))],
     [user |-> Some(Chars("user")), pwd |-> Some(Chars("~/p"))]}

UnwrapOr(opt, default) == IF opt.some THEN opt.v ELSE default

Context(env) ==
    LET base == [x \in {"time", "pwd_short"} |->
                    IF x = "time" THEN Chars("12:00") ELSE UnwrapOr(env.pwd, <<>>)]
        with_pwd == IF env.pwd.some THEN base ELSE [x \in {"time"} |-> base[x]]
    IN IF env.user.some THEN Insert(with_pwd, "user", env.user.v) ELSE with_pwd

LoadingError == "Template Loading Error"
RenderingError == "Template Rendering Error"

InitPrompt ==
    /\ \E quiet \in BOOLEAN, source \in Sources, name \in TemplateNames,
          format \in Formats, terminal_width \in TerminalWidths, env \in Environments :
          rp = [pc |-> "load", quiet |-> quiet, source |-> source, template |-> name,
                format |-> format, terminal_width |-> terminal_width, env |-> env,
                pending |-> {}, registry |-> EmptyMap, context |-> Context(env),
                error |-> None, output |-> <<>>, stderr |-> <<>>, stdout |-> <<>>,
                ret |-> "running"]
    /\ PreStart(<<>>)
    /\ BufIdle
    /\ CallIdle
    /\ HistIdle
    /\ RegIdle

RpDefaults(next) ==
    IF DefaultRegistration.st = "ok"
    THEN [next EXCEPT !.registry = Extend(next.registry, DefaultRegistration.v),
                      !.pc = "context"]
    ELSE [next EXCEPT !.ret = "err", !.pc = "done"]

\* the branch on theme_or_config, and the parse of the configuration
RpLoadTemplates ==
    /\ rp.pc = "load"
    /\ rp' = IF ~rp.source.some THEN RpDefaults(rp)
             ELSE IF ~rp.source.v.parses
             THEN [rp EXCEPT !.pc = "load_failed", !.error = Some(Err("toml", "parse"))]
             ELSE IF rp.source.v.templates = {} THEN [rp EXCEPT !.pc = "context"]
             ELSE [rp EXCEPT !.pc = "registering", !.pending = rp.source.v.templates]
    /\ UNCHANGED <<preVars, bufVars, callVars, histVars, regVars>>

\* one turn of the loop of load_templates_from_config; the map is iterated in
\* an order the program does not choose
RpRegisterOne ==
    /\ rp.pc = "registering"
    /\ \E t \in rp.pending :
          LET r == RegisterTemplate(EmptyMap, EmptyMap, EmptyMap, t[2])
              rest == rp.pending \ {t}
          IN rp' = IF r.st = "panic" THEN [rp EXCEPT !.pc = "panicked", !.ret = "panic"]
                   ELSE IF r.st # "ok"
                   THEN [rp EXCEPT !.pc = "load_failed", !.error = Some(r)]
                   ELSE [rp EXCEPT !.registry = Insert(rp.registry, t[1], r.v),
                                   !.pending = rest,
                                   !.pc = IF rest = {} THEN "context" ELSE "registering"]
    /\ UNCHANGED <<preVars, bufVars, callVars, histVars, regVars>>

\* the Err arm of the load: the diagnostic unless quiet, then the defaults
RpLoadFailed ==
    /\ rp.pc = "load_failed"
    /\ rp' = RpDefaults([rp EXCEPT !.stderr =
                            IF ~rp.quiet THEN rp.stderr \o <<LoadingError, rp.error.v>>
                            ELSE rp.stderr])
    /\ UNCHANGED <<preVars, bufVars, callVars, histVars, regVars>>

\* first_line, built for the main template only
RpFirstLine ==
    /\ rp.pc = "context"
    /\ rp' = [rp EXCEPT !.pc = "render",
                        !.context = Insert(rp.context, "first_line",
                            IF rp.template = "main"
                            THEN FirstLine(rp.registry, rp.context, rp.terminal_width)
                            ELSE <<>>)]
    /\ UNCHANGED <<preVars, bufVars, callVars, histVars, regVars>>

\* the render of the requested template, and its Err arm
RpRender ==
    /\ rp.pc = "render"
    /\ LET r == EngineRender(rp.registry, rp.context, rp.template)
       IN rp' = IF r.st = "ok" THEN [rp EXCEPT !.pc = "format", !.output = r.v]
                ELSE [rp EXCEPT !.pc = "format",
                                !.error = Some(r),
                                !.stderr = rp.stderr \o <<RenderingError, r>>,
                                !.output = FallbackPrompt(
                                    UnwrapOr(rp.env.user, Chars("user")),
                                    UnwrapOr(rp.env.pwd, Chars("~")))]
    /\ UNCHANGED <<preVars, bufVars, callVars, histVars, regVars>>

\* the match on cli.format, and the return
RpFormat ==
    /\ rp.pc = "format"
    /\ rp' = [rp EXCEPT !.pc = "done", !.ret = "ok",
                        !.stdout = FormatOutput(rp.format, rp.template, rp.output)]
    /\ UNCHANGED <<preVars, bufVars, callVars, histVars, regVars>>

NextPrompt ==
    \/ RpLoadTemplates
    \/ RpRegisterOne
    \/ RpLoadFailed
    \/ RpFirstLine
    \/ RpRender
    \/ RpFormat

SpecPrompt == InitPrompt /\ [][NextPrompt]_vars

----------------------------------------------------------------------------
(* Claims about render_prompt *)

\* C3: every run of render_prompt ends by emitting non-empty prompt text and
\* returning Ok; no run is cut short, and a finished run has returned Ok with
\* text on the output stream.
C3_AlwaysEmitsPrompt ==
    /\ rp.pc # "panicked"
    /\ rp.pc = "done" => rp.ret = "ok" /\ rp.stdout # <<>>

\* C6: when the quiet flag is set, render_prompt writes nothing to the error
\* stream, neither when template registration fails nor when the requested
\* template fails to render.
C6_QuietSuppressesDiagnostics ==
    rp.pc # "idle" => (rp.quiet => rp.stderr = <<>>)

----------------------------------------------------------------------------
(* Properties of symbol resolution.  A theme symbol table is the `symbols`   *)
(* map handed to TemplatePreprocessor::with_symbols.                         *)

\* a theme table that overrides the built-in name home and adds the name mine
ThemeSymbols ==
    [n \in {"home", "mine"} |-> IF n = "home" THEN Chars("H") ELSE Chars("M")]

\* a populated theme table that overrides no built-in name
ThemeSymbolsNoOverride == [n \in {"mine"} |-> Chars("M")]

SymbolTables == {EmptyMap, ThemeSymbols, ThemeSymbolsNoOverride}

\* home and folder are built-in names, mine is a theme name, nosuch is neither
SymbolNames == {"home", "folder", "mine", "nosuch"}

SymRefs == [syntax : {"at", "sym"}, name : SymbolNames]

RefText(r) ==
    IF r.syntax = "at" THEN Chars("@") \o Chars(r.name)
    ELSE Chars("(sym ") \o Chars(r.name) \o Chars(")")

SymPieces ==
    {RefText(r) : r \in SymRefs}
        \cup {Chars("(b)"), Chars("(/b)"), Chars("{{x}}"), Chars("y ")}

\* the longest symbol template, in pieces
MaxSymPieces == 2

InitSym ==
    /\ \E tmpl \in TemplatesOver(SymPieces, MaxSymPieces), table \in SymbolTables :
          /\ template = tmpl
          /\ colors = ThemeColors
          /\ symbols = table
          /\ segments = EmptyMap
          /\ pc = "extract"
          /\ chars = <<>>
          /\ i = 0
          /\ output = <<>>
          /\ style_stack = <<>>
          /\ extracted = [st |-> "none"]
          /\ result = [st |-> "running"]
          /\ rendered = [st |-> "none"]
    /\ BufIdle
    /\ RpIdle
    /\ CallIdle
    /\ HistIdle
    /\ RegIdle

SpecSym == InitSym /\ [][NextPre]_vars

\* the glyph of a name looked up in the theme table first and in the built-in
\* table otherwise
ThemeThenBuiltin(name) ==
    IF name \in DOMAIN symbols THEN Ok(symbols[name]) ELSE ResolveSymbol(Chars(name))

\* the outcome of preprocessing a template made of the references rs, given
\* the glyph of each reference
ExpectedOf(glyphs) ==
    IF \A k \in DOMAIN glyphs : glyphs[k].st = "ok"
    THEN Ok(Flatten([k \in DOMAIN glyphs |-> glyphs[k].v]))
    ELSE [st |-> "err"]

Agrees(actual, expected) ==
    IF expected.st = "ok" THEN actual = expected ELSE actual.st = "err"

RefSeqs == UNION {[1..k -> SymRefs] : k \in 1..MaxSymPieces}

\* C11: a symbol name resolves to the theme-supplied glyph when the theme
\* symbol table defines it and to the built-in glyph otherwise, whether it is
\* referenced as @name or as (sym name); so a built-in name the theme does
\* not override resolves to the same glyph with an empty or a populated theme
\* table.
C11_BothSyntaxesUseTheme ==
    pc = "done" =>
        \A rs \in RefSeqs :
            template = Flatten([k \in DOMAIN rs |-> RefText(rs[k])]) =>
                Agrees(result, ExpectedOf([k \in DOMAIN rs |-> ThemeThenBuiltin(rs[k].name)]))

\* the theme overrides home: @home gives the theme glyph, (sym home) the
\* built-in one
C11_Witness ==
    /\ pc = "done"
    /\ symbols = ThemeSymbols
    /\ template = Chars("@home(sym home)")
    /\ result = Ok(<<"H", "U+f015">>)

----------------------------------------------------------------------------
(* Color.  An f32 amount is a fraction n/d with d a power of two, or one of  *)
(* the infinities or NaN; on these amounts and 8-bit channels every product  *)
(* and sum of lighten and darken is exact in f32.                            *)

NewColor(r, g, b) == [r |-> r, g |-> g, b |-> b]

\* str::trim_start_matches('#')
RECURSIVE TrimStartMatchesHash(_)
TrimStartMatchesHash(cs) ==
    IF cs # <<>> /\ Head(cs) = "#" THEN TrimStartMatchesHash(Tail(cs)) ELSE cs

\* &hex[a..b] handed to u8::from_str_radix: a panic when an offset is inside
\* a character, an error when the slice is no number
ParseChannel(hex, a, b) ==
    IF ~IsCharBoundary(hex, a) \/ ~IsCharBoundary(hex, b) THEN Panic
    ELSE LET n == U8FromHex(ByteSlice(hex, a, b))
         IN IF n < 0 THEN Err("parse_int", ByteSlice(hex, a, b)) ELSE Ok(n)

FromHex(text) ==
    LET hex == TrimStartMatchesHash(text)
    IN IF ByteLen(hex) # 6 THEN Err("invalid_hex", hex)
       ELSE LET r == ParseChannel(hex, 0, 2)
            IN IF r.st # "ok" THEN r
               ELSE LET g == ParseChannel(hex, 2, 4)
                    IN IF g.st # "ok" THEN g
                       ELSE LET b == ParseChannel(hex, 4, 6)
                            IN IF b.st # "ok" THEN b
                               ELSE Ok(NewColor(r.v, g.v, b.v))

\* {:02X}: two upper-case hexadecimal digits
UpperHex2(n) == <<HexDigitsUpper[(n \div 16) + 1], HexDigitsUpper[(n % 16) + 1]>>

\* {:02x}: two lower-case hexadecimal digits
LowerHex2(n) == <<HexDigits[(n \div 16) + 1], HexDigits[(n % 16) + 1]>>

ToHex(c) == <<"#">> \o LowerHex2(c.r) \o LowerHex2(c.g) \o LowerHex2(c.b)

Num(n, d) == [kind |-> "num", n |-> n, d |-> d]
NaN == [kind |-> "nan", n |-> 0, d |-> 1]
PosInf == [kind |-> "inf", n |-> 1, d |-> 1]
NegInf == [kind |-> "inf", n |-> -1, d |-> 1]

\* f32::clamp(0.0, 1.0): NaN stays NaN
ClampNoLowerBound(amount) ==
    IF amount.kind = "nan" THEN amount
    ELSE IF amount.n > amount.d THEN Num(1, 1)
    ELSE amount

Clamp01(amount) ==
    IF amount.kind = "nan" THEN amount
    ELSE IF amount.n < 0 THEN Num(0, 1)
    ELSE IF amount.kind = "inf" \/ amount.n > amount.d THEN Num(1, 1)
    ELSE amount

\* `as u8` of the f32 n/d: truncation toward zero, saturating at 0 and 255
AsU8(n, d) ==
    IF n < 0 THEN 0
    ELSE IF n \div d > 255 THEN 255
    ELSE n \div d

\* (ch as f32 + (255.0 - ch as f32) * amount) as u8; NaN casts to 0
LightenChannel(ch, amount) ==
    IF amount.kind = "nan" THEN 0
    ELSE AsU8(ch * amount.d + (255 - ch) * amount.n, amount.d)

\* (ch as f32 * (1.0 - amount)) as u8; NaN casts to 0
DarkenChannel(ch, amount) ==
    IF amount.kind = "nan" THEN 0
    ELSE AsU8(ch * (amount.d - amount.n), amount.d)

Lighten(c, amount) ==
    LET a == Clamp01(amount)
    IN NewColor(LightenChannel(c.r, a), LightenChannel(c.g, a), LightenChannel(c.b, a))

Darken(c, amount) ==
    LET a == Clamp01(amount)
    IN NewColor(DarkenChannel(c.r, a), DarkenChannel(c.g, a), DarkenChannel(c.b, a))

(* Calls of Color *)

HexPieces ==
    {Chars("00"), Chars("ff"), Chars("1A"), Chars("c4"), Chars("+f"), Chars("g0"),
     <<"é">>, <<"a", "é">>, Chars("9")}

HexInputs ==
    {prefix \o a \o b \o c :
        prefix \in {<<>>, Chars("#"), Chars("##")}, a \in HexPieces, b \in HexPieces,
        c \in HexPieces}

Channels == {0, 1, 100, 127, 254, 255}

Amounts ==
    {Num(0, 1), Num(1, 1), Num(1, 2), Num(1, 4), Num(3, 4), Num(-1, 4), Num(-3, 1),
     Num(5, 4), Num(2, 1), NaN, PosInf, NegInf}

ColorCall(pcv, hex, color, text, op, amount, adjusted) ==
    [pc |-> pcv, hex |-> hex, color |-> color, text |-> text, op |-> op,
     amount |-> amount, adjusted |-> adjusted]

InitColor ==
    /\ call = [pc |-> "start"]
    /\ HistIdle
    /\ RegIdle
    /\ PreStart(<<>>)
    /\ BufIdle
    /\ RpIdle

CallColorNew ==
    /\ call.pc = "start"
    /\ \E r \in Channels, g \in Channels, b \in Channels :
          call' = ColorCall("color", None, Ok(NewColor(r, g, b)), None, "none", NaN, None)
    /\ UNCHANGED <<preVars, bufVars, rpVars, histVars, regVars>>

CallFromHex ==
    /\ call.pc = "start"
    /\ \E text \in HexInputs :
          call' = ColorCall("color", Some(text), FromHex(text), None, "none", NaN, None)
    /\ UNCHANGED <<preVars, bufVars, rpVars, histVars, regVars>>

CallToHex ==
    /\ call.pc = "color"
    /\ call.color.st = "ok"
    /\ call' = [call EXCEPT !.pc = "printed", !.text = Some(ToHex(call.color.v))]
    /\ UNCHANGED <<preVars, bufVars, rpVars, histVars, regVars>>

CallLighten ==
    /\ call.pc = "color"
    /\ call.color.st = "ok"
    /\ \E amount \in Amounts :
          call' = [call EXCEPT !.pc = "adjusted", !.op = "lighten", !.amount = amount,
                               !.adjusted = Some(Lighten(call.color.v, amount))]
    /\ UNCHANGED <<preVars, bufVars, rpVars, histVars, regVars>>

CallDarken ==
    /\ call.pc = "color"
    /\ call.color.st = "ok"
    /\ \E amount \in Amounts :
          call' = [call EXCEPT !.pc = "adjusted", !.op = "darken", !.amount = amount,
                               !.adjusted = Some(Darken(call.color.v, amount))]
    /\ UNCHANGED <<preVars, bufVars, rpVars, histVars, regVars>>

NextColor ==
    \/ CallColorNew
    \/ CallFromHex
    \/ CallToHex
    \/ CallLighten
    \/ CallDarken

SpecColor == InitColor /\ [][NextColor]_vars

----------------------------------------------------------------------------
(* Properties of Color *)

IsHexDigit(c) == c \in DigitChars \cup {"a", "b", "c", "d", "e", "f"}
                      \cup {"A", "B", "C", "D", "E", "F"}

\* the six digits of a text that is six hexadecimal digits, with or without
\* one leading '#'; None for every other text
SixDigitsOf(text) ==
    LET body == IF text # <<>> /\ Head(text) = "#" THEN Tail(text) ELSE text
    IN IF Len(body) = 6 /\ \A k \in 1..6 : IsHexDigit(body[k])
       THEN Some(body) ELSE None

LowerCased(cs) ==
    [k \in DOMAIN cs |->
        IF \E j \in 1..6 : Chars("ABCDEF")[j] = cs[k]
        THEN Chars("abcdef")[CHOOSE j \in 1..6 : Chars("ABCDEF")[j] = cs[k]]
        ELSE cs[k]]

FromHexCalled == call.pc \in {"color", "printed", "adjusted"} /\ call.hex.some

\* C12: for every text of exactly six hexadecimal digits, with or without one
\* leading '#', from_hex succeeds and to_hex of the colour is '#' followed by
\* the six digits in lower case.
C12_HexRoundTrip ==
    (FromHexCalled /\ SixDigitsOf(call.hex.v).some) =>
        /\ call.color.st = "ok"
        /\ call.pc = "printed" =>
              call.text = Some(<<"#">> \o LowerCased(SixDigitsOf(call.hex.v).v))

C12_Witness ==
    /\ call.pc = "printed"
    /\ call.hex = Some(Chars("#1Ac4ff"))
    /\ call.color = Ok(NewColor(26, 196, 255))
    /\ call.text = Some(Chars("#1ac4ff"))

\* C13: from_hex returns an error, never a Color and never a panic, for every
\* text that is not exactly six hexadecimal digits optionally preceded by a
\* single '#': a wrong length, more than one leading '#', a sign character,
\* a non-ASCII character.
C13_OtherTextsAreErrors ==
    (FromHexCalled /\ ~SixDigitsOf(call.hex.v).some) => call.color.st = "err"

\* a six-byte text whose second byte is inside a character
C13_Witness ==
    /\ call.pc = "color"
    /\ call.hex = Some(<<"a", "é", "1", "A", "9">>)
    /\ call.color = Panic

White == NewColor(255, 255, 255)
Black == NewColor(0, 0, 0)

\* the colour a bound of [0,1] gives: lighten(1.0) is white, darken(1.0) is
\* black, and both leave the colour alone at 0.0
AtBound(op, c, bound) ==
    IF bound = 0 THEN c ELSE IF op = "lighten" THEN White ELSE Black

Below0(a) == a.kind # "nan" /\ a.n < 0
Above1(a) == a.kind # "nan" /\ (a.kind = "inf" \/ a.n > a.d) /\ a.n > 0

----------------------------------------------------------------------------
(* Calls of visible_width *)

WidthAlphabet == {"a", "W", "m", ESC}

\* the longest text measured
MaxWidthText == 4

WidthTexts == UNION {[1..n -> WidthAlphabet] : n \in 0..MaxWidthText}

\* the parameters of the opening sequence of a pair
SgrParams == {Chars("31"), Chars("1;4"), Chars("38;2;255;0;0")}

\* text with the characters from index a up to index b wrapped in ESC[...m
\* and ESC[0m
Wrap(text, a, b, params) ==
    Slice(text, 0, a) \o Sgr(params) \o Slice(text, a, b) \o Sgr(Chars("0"))
        \o Slice(text, b, Len(text))

InitWidth ==
    /\ call = [pc |-> "start"]
    /\ HistIdle
    /\ RegIdle
    /\ PreStart(<<>>)
    /\ BufIdle
    /\ RpIdle

CallVisibleWidth ==
    /\ call.pc = "start"
    /\ \E text \in WidthTexts :
          call' = [pc |-> "measured", text |-> text, a |-> 0, b |-> 0, wrapped |-> <<>>,
                   width |-> VisibleWidth(text), wrapped_width |-> 0]
    /\ UNCHANGED <<preVars, bufVars, rpVars, histVars, regVars>>

CallVisibleWidthWrapped ==
    /\ call.pc = "measured"
    /\ \E a \in 0..Len(call.text), params \in SgrParams :
          \E b \in a..Len(call.text) :
              LET wrapped == Wrap(call.text, a, b, params)
              IN call' = [call EXCEPT !.pc = "wrapped", !.a = a, !.b = b,
                                      !.wrapped = wrapped,
                                      !.wrapped_width = VisibleWidth(wrapped)]
    /\ UNCHANGED <<preVars, bufVars, rpVars, histVars, regVars>>

NextWidth ==
    \/ CallVisibleWidth
    \/ CallVisibleWidthWrapped

SpecWidth == InitWidth /\ [][NextWidth]_vars

\* index p of text lies after an ESC that no 'm' has ended yet
InsideEscape(text, p) ==
    \E e \in 0..(p - 1) :
        /\ At(text, e) = ESC
        /\ \A j \in (e + 1)..(p - 1) : At(text, j) # "m"

\* the statement for every text and every substring
C15_EverySubstring ==
    call.pc = "wrapped" => call.wrapped_width = call.width

\* C15: for every text s and every substring of s whose two ends lie outside
\* the ESC ... m sequences of s (no ESC before the end is still waiting for
\* its 'm'), wrapping the substring in a well-formed SGR pair (ESC[...m before
\* it, ESC[0m after it) leaves the visible width unchanged.
C15_WrapKeepsWidth ==
    (/\ call.pc = "wrapped"
     /\ ~InsideEscape(call.text, call.a)
     /\ ~InsideEscape(call.text, call.b)) => call.wrapped_width = call.width

C15_Witness ==
    /\ call.pc = "wrapped"
    /\ call.text = <<"a", ESC, "m", "W">>
    /\ call.a = 3
    /\ call.b = 4
    /\ call.wrapped = <<"a", ESC, "m">> \o Sgr(Chars("31")) \o <<"W">> \o Sgr(Chars("0"))
    /\ call.width = 3
    /\ call.wrapped_width = 3

----------------------------------------------------------------------------
(* Properties of the composed first line *)

FirstLineBuilt == rp.pc \in {"render", "format", "done"} /\ rp.template = "main"

LeftOutput == EngineRender(rp.registry, Context(rp.env), "left")
RightOutput == EngineRender(rp.registry, Context(rp.env), "right")

\* left, the spaces that fill the terminal width when there is room, right
Composed(left, right, terminal_width) ==
    LET total == VisibleWidth(left) + VisibleWidth(right)
    IN IF total < terminal_width
       THEN left \o [k \in 1..(terminal_width - total) |-> " "] \o right
       ELSE left \o right

\* the statement for every right text that renders, blank ones included
C16_EveryRightText ==
    (FirstLineBuilt /\ LeftOutput.st = "ok" /\ RightOutput.st = "ok") =>
        rp.context["first_line"] = Composed(LeftOutput.v, RightOutput.v, rp.terminal_width)

\* C16: when the main template is rendered and the left and right
\* sub-templates both render successfully, the right one to a text that is not
\* blank: with visible_width(left) + visible_width(right) < terminal_width the
\* first_line is left, then exactly terminal_width - visible_width(left) -
\* visible_width(right) spaces, then right; with a combined width of
\* terminal_width or more it is left immediately followed by right.  When
\* right renders to a blank text the first_line is left alone.
C16_FirstLineComposed ==
    (FirstLineBuilt /\ LeftOutput.st = "ok" /\ RightOutput.st = "ok") =>
        rp.context["first_line"] =
            IF Trim(RightOutput.v) # <<>>
            THEN Composed(LeftOutput.v, RightOutput.v, rp.terminal_width)
            ELSE LeftOutput.v

\* left "user", right "12:00", width 20: 11 spaces
C16_Witness ==
    /\ rp.pc = "render"
    /\ rp.template = "main"
    /\ rp.terminal_width = 20
    /\ LeftOutput = Ok(Chars("user"))
    /\ RightOutput = Ok(Chars("12:00"))
    /\ rp.context["first_line"] = Chars("user           12:00")

----------------------------------------------------------------------------
(* format_path_helper *)

Ellipsis == "U+2026"

\* str::split('/'): the pieces between the slashes, empty ones included
RECURSIVE SplitSlash(_, _)
SplitSlash(cs, from) ==
    LET stop == NextOf(cs, from, {"/"})
    IN IF stop >= Len(cs) THEN <<Slice(cs, from, Len(cs))>>
       ELSE <<Slice(cs, from, stop)>> \o SplitSlash(cs, stop + 1)

\* [..].join("/")
RECURSIVE JoinSlash(_)
JoinSlash(segs) ==
    IF segs = <<>> THEN <<>>
    ELSE IF Len(segs) = 1 THEN segs[1]
    ELSE segs[1] \o <<"/">> \o JoinSlash(Tail(segs))

RECURSIVE DigitsValue(_)
DigitsValue(cs) ==
    IF cs = <<>> THEN 0
    ELSE 10 * DigitsValue(SubSeq(cs, 1, Len(cs) - 1))
             + (CHOOSE d \in 0..9 : Dec(d) = <<cs[Len(cs)]>>)

\* a parse that accepts nothing
ParseUsizeNever(cs) == None

\* str::parse::<usize>().ok(): decimal digits after an optional '+'
ParseUsize(cs) ==
    LET digits == IF cs # <<>> /\ Head(cs) = "+" THEN Tail(cs) ELSE cs
    IN IF digits # <<>> /\ \A k \in DOMAIN digits : digits[k] \in DigitChars
       THEN Some(DigitsValue(digits)) ELSE None

\* mode.strip_prefix(prefix).and_then(parse).unwrap_or(default)
ModeNumber(mode, prefix, default) ==
    UnwrapOr(ParseUsize(Slice(mode, Len(prefix), Len(mode))), default)

\* seg.chars().take(n).collect(), with at least one character kept
TakeAtLeastOne(seg, n) == SubSeq(seg, 1, Max(1, Min(n, Len(seg))))

\* seg.chars().take(n).collect()
TakeChars(seg, n) == SubSeq(seg, 1, Min(n, Len(seg)))

FormatPathLast(path) ==
    LET segs == SplitSlash(path, 0)
        last == segs[Len(segs)]
    IN IF Contains(path, <<"/">>) THEN <<Ellipsis, "/">> \o last ELSE last

FormatPathFirst(path, n) ==
    LET segs == SplitSlash(path, 0)
    IN JoinSlash([k \in DOMAIN segs |->
            IF segs[k] = <<"~">> \/ k = Len(segs) \/ segs[k] = <<>>
            THEN segs[k]
            ELSE TakeChars(segs[k], n)])

FormatPathDepth(path, n) ==
    LET segs == SelectSeq(SplitSlash(path, 0), LAMBDA seg : seg # <<>>)
    IN IF Len(segs) <= n THEN path
       ELSE <<Ellipsis, "/">>
                \o JoinSlash(SubSeq(segs, Len(segs) - n + 1, Len(segs)))

FormatPathEllipsis(path) ==
    LET segs == SelectSeq(SplitSlash(path, 0), LAMBDA seg : seg # <<>>)
    IN IF Len(segs) <= 2 THEN path
       ELSE segs[1] \o <<"/", Ellipsis, "/">> \o segs[Len(segs)]

FormatPath(path, mode) ==
    IF mode = Chars("last") THEN FormatPathLast(path)
    ELSE IF MatchAt(mode, 0, Chars("first:"))
    THEN FormatPathFirst(path, ModeNumber(mode, Chars("first:"), 1))
    ELSE IF MatchAt(mode, 0, Chars("depth:"))
    THEN FormatPathDepth(path, ModeNumber(mode, Chars("depth:"), 2))
    ELSE IF mode = Chars("ellipsis") THEN FormatPathEllipsis(path)
    ELSE path

(* Calls of format_path *)

PathSegments == {<<"~">>, <<>>, Chars("a"), Chars("xyz"), Chars("é~")}

\* the most segments of a generated path, and the largest N of a mode
MaxSegments == 3
MaxModeNumber == 2

PathExamples ==
    {Chars("~/a/b/c/d"), Chars("~/a/b"), Chars("~/a"),
     Chars("~/projects/zush/zuper-shell-prompt/zush-prompt-rust")}

Paths ==
    {JoinSlash(segs) : segs \in UNION {[1..n -> PathSegments] : n \in 1..MaxSegments}}
        \cup PathExamples

Modes ==
    {Chars("last"), Chars("ellipsis"), Chars("full"), Chars("short"), Chars("first:"),
     Chars("depth:x"), Chars("depth:+1")}
        \cup {Chars("first:") \o Dec(n) : n \in 0..MaxModeNumber}
        \cup {Chars("depth:") \o Dec(n) : n \in 0..MaxModeNumber}

InitPath ==
    /\ call = [pc |-> "start"]
    /\ HistIdle
    /\ RegIdle
    /\ PreStart(<<>>)
    /\ BufIdle
    /\ RpIdle

CallFormatPath ==
    /\ call.pc = "start"
    /\ \E path \in Paths, mode \in Modes :
          call' = [pc |-> "formatted", path |-> path, mode |-> mode,
                   out |-> FormatPath(path, mode)]
    /\ UNCHANGED <<preVars, bufVars, rpVars, histVars, regVars>>

NextPath == CallFormatPath

SpecPath == InitPath /\ [][NextPath]_vars

----------------------------------------------------------------------------
(* Properties of format_path *)

Formatted(mode) == call.pc = "formatted" /\ call.mode = mode

\* the segments of a path, and those that are not empty
SegmentsOf(path) == SplitSlash(path, 0)
NamedSegmentsOf(path) == SelectSeq(SegmentsOf(path), LAMBDA seg : seg # <<>>)

\* the named segments after the root ("~" or the empty segment before a
\* leading slash)
AfterRoot(path) ==
    LET segs == SegmentsOf(path)
    IN IF Len(segs) > 1 /\ segs[1] \in {<<"~">>, <<>>}
       THEN SelectSeq(Tail(segs), LAMBDA seg : seg # <<>>)
       ELSE SelectSeq(segs, LAMBDA seg : seg # <<>>)

LastOf(segs) == segs[Len(segs)]

\* C17: format_path(path, "last") returns the ellipsis, "/" and the final
\* segment when the path has a parent to elide ("~/a/b" gives "…/b"), and
\* returns the segment unchanged with no leading ellipsis for a path of a
\* single segment after the root, such as "~/a".
C17_LastMode ==
    (Formatted(Chars("last")) /\ AfterRoot(call.path) # <<>>) =>
        IF Len(AfterRoot(call.path)) >= 2
        THEN call.out = <<Ellipsis, "/">> \o LastOf(SegmentsOf(call.path))
        ELSE call.out \in {LastOf(SegmentsOf(call.path)), call.path}

C17_Witness ==
    /\ Formatted(Chars("last"))
    /\ call.path = Chars("~/a")
    /\ call.out = <<Ellipsis>> \o Chars("/a")

Shortened(seg, n) == [k \in 1..(IF n < Len(seg) THEN n ELSE Len(seg)) |-> seg[k]]

\* the statement for every path: only the first and the last segment are kept
C19_FirstAndLastKept ==
    \A n \in 0..MaxModeNumber :
        Formatted(Chars("first:") \o Dec(n)) =>
            LET segs == SegmentsOf(call.path)
            IN call.out = JoinSlash([k \in DOMAIN segs |->
                              IF k = 1 \/ k = Len(segs) THEN segs[k]
                              ELSE Shortened(segs[k], n)])

\* C19: format_path(path, "first:N") shortens to its first N characters every
\* segment except the last one and the segments that are "~" or empty, which
\* it leaves unchanged; so the first segment is unchanged in a home-relative
\* ("~/...") and in an absolute ("/...") path, and shortened like the others
\* in a relative path.
C19_FirstMode ==
    \A n \in 0..MaxModeNumber :
        Formatted(Chars("first:") \o Dec(n)) =>
            LET segs == SegmentsOf(call.path)
            IN call.out = JoinSlash([k \in DOMAIN segs |->
                              IF k = Len(segs) \/ segs[k] \in {<<"~">>, <<>>} THEN segs[k]
                              ELSE Shortened(segs[k], n)])

C19_Witness ==
    /\ Formatted(Chars("first:1"))
    /\ call.path = Chars("~/projects/zush/zuper-shell-prompt/zush-prompt-rust")
    /\ call.out = Chars("~/p/z/z/zush-prompt-rust")

----------------------------------------------------------------------------
(* Properties of adjacent style tags *)

AdjacentOpen == Chars("(b)(bg #ff0000)test")
AdjacentClosed == Chars("(b)(bg #ff0000)test(/bg)(/b)")
BoldCode == Sgr(Chars("1"))
BgRedCode == Sgr(Chars("48;2;255;0;0"))

----------------------------------------------------------------------------
(* Segment definitions of the theme: render_prompt and toml_helpers *)

\* str::lines(): the pieces between the newlines; a newline at the very end
\* starts no further line, and the empty text has no line
RECURSIVE StrLines(_, _)
StrLines(cs, from) ==
    IF from >= Len(cs) THEN <<>>
    ELSE LET stop == NextOf(cs, from, {NL})
         IN <<Slice(cs, from, stop)>> \o StrLines(cs, stop + 1)

\* lines().map(trim).filter(not empty).collect().join("")
TrimAndJoin(lines) ==
    Flatten(SelectSeq([k \in DOMAIN lines |-> Trim(lines[k])], LAMBDA line : line # <<>>))

\* render_prompt: the text of every segment is trimmed line by line and
\* joined, however many lines it has
NormalizeContentInline(text) == TrimAndJoin(StrLines(text, 0))

\* toml_helpers::normalize_multiline_content
NormalizeMultilineContent(text) ==
    LET lines == StrLines(text, 0)
    IN IF Len(lines) = 1 THEN text ELSE TrimAndJoin(lines)

NewSegmentDef(name, text) ==
    [name |-> name, bg |-> None, fg |-> None, content |-> text, sep |-> None,
     left_cap |-> None]

ContentAlphabet == {"a", " ", NL}

\* the longest segment text
MaxContent == 4

Contents == UNION {[1..n -> ContentAlphabet] : n \in 0..MaxContent}

InitContent ==
    /\ call = [pc |-> "start"]
    /\ HistIdle
    /\ RegIdle
    /\ PreStart(<<>>)
    /\ BufIdle
    /\ RpIdle

\* render_prompt reads [segments] a = { text = ... } from the theme
CallParseSegments ==
    /\ call.pc = "start"
    /\ \E text \in Contents :
          call' = [pc |-> "loaded", by |-> "render_prompt", content |-> text,
                   segs |-> Insert(EmptyMap, "a",
                                   NewSegmentDef("a", NormalizeContentInline(text))),
                   result |-> None]
    /\ UNCHANGED <<preVars, bufVars, rpVars, histVars, regVars>>

\* TomlParser::parse_segments on the same table
CallTomlParseSegments ==
    /\ call.pc = "start"
    /\ \E text \in Contents :
          call' = [pc |-> "loaded", by |-> "TomlParser", content |-> text,
                   segs |-> Insert(EmptyMap, "a",
                                   NewSegmentDef("a", NormalizeMultilineContent(text))),
                   result |-> None]
    /\ UNCHANGED <<preVars, bufVars, rpVars, histVars, regVars>>

\* a template that refers to the segment is preprocessed
CallPreprocessReference ==
    /\ call.pc = "loaded"
    /\ call' = [call EXCEPT !.pc = "preprocessed",
                            !.result = Some(Preprocess(EmptyMap, EmptyMap, call.segs,
                                                       Chars("{{seg:a}}")))]
    /\ UNCHANGED <<preVars, bufVars, rpVars, histVars, regVars>>

NextContent ==
    \/ CallParseSegments
    \/ CallTomlParseSegments
    \/ CallPreprocessReference

SpecContent == InitContent /\ [][NextContent]_vars

IsSingleLine(text) == \A k \in DOMAIN text : text[k] # NL

\* the lines of a text, each with its leading and trailing blanks removed,
\* joined with nothing in between
TrimmedLinesJoined(text) ==
    LET breaks == <<0>> \o [k \in 1..Len(SelectSeq(text, LAMBDA c : c = NL)) |->
                      CHOOSE p \in 1..Len(text) :
                          /\ text[p] = NL
                          /\ Cardinality({q \in 1..p : text[q] = NL}) = k]
                       \o <<Len(text) + 1>>
    IN Flatten([k \in 1..(Len(breaks) - 1) |->
                   Trim(SubSeq(text, breaks[k] + 1, breaks[k + 1] - 1))])

\* C21: the text of a segment defined in the theme configuration reaches
\* the preprocessor verbatim, trailing spaces included, when it is a single
\* line; only text of several lines is trimmed line by line and joined.
C21_SingleLineVerbatim ==
    (call.pc \in {"loaded", "preprocessed"} /\ call.by = "render_prompt") =>
        /\ call.segs["a"].content =
              IF IsSingleLine(call.content) THEN call.content
              ELSE TrimmedLinesJoined(call.content)
        /\ (call.pc = "preprocessed" /\ IsSingleLine(call.content)) =>
              call.result.v = Ok(<<" ">> \o call.content \o <<" ">>)

\* the trailing space of "a " is gone when the preprocessor expands the segment
C21_Witness ==
    /\ call.pc = "preprocessed"
    /\ call.by = "render_prompt"
    /\ call.content = Chars("a ")
    /\ call.segs["a"].content = Chars("a")
    /\ call.result.v = Ok(Chars(" a "))

----------------------------------------------------------------------------
(* Properties of colour resolution over theme tables with chains and cycles. *)
(* resolve_color calls itself once per hop with no counter: the stack is     *)
(* exhausted when the names form a cycle.  Every chain without a cycle in    *)
(* the tables below is shorter than MaxResolveDepth.                         *)

ChainColors ==
    [n \in {"a", "b", "c"} |->
        IF n = "a" THEN Chars("#ff0000") ELSE IF n = "b" THEN Chars("a") ELSE Chars("b")]

CycleColors ==
    [n \in {"a", "b", "c"} |->
        IF n = "a" THEN Chars("b") ELSE IF n = "b" THEN Chars("a") ELSE Chars("#00ff00")]

SelfCycleColors == [n \in {"a"} |-> Chars("a")]

ColorTables == {EmptyMap, ChainColors, CycleColors, SelfCycleColors}

CyclePieces ==
    {Chars("(fg a)"), Chars("(bg b)"), Chars("(fg c)"), Chars("(fg #0000ff)"),
     Chars("(/fg)"), Chars("(/bg)"), Chars("{{x}}"), Chars("y ")}

\* the longest colour template, in pieces
MaxCyclePieces == 3

InitCycle ==
    /\ \E tmpl \in TemplatesOver(CyclePieces, MaxCyclePieces), table \in ColorTables :
          /\ template = tmpl
          /\ colors = table
          /\ symbols = EmptyMap
          /\ segments = EmptyMap
          /\ pc = "extract"
          /\ chars = <<>>
          /\ i = 0
          /\ output = <<>>
          /\ style_stack = <<>>
          /\ extracted = [st |-> "none"]
          /\ result = [st |-> "running"]
          /\ rendered = [st |-> "none"]
    /\ BufIdle
    /\ RpIdle
    /\ CallIdle
    /\ HistIdle
    /\ RegIdle

SpecCycle == InitCycle /\ [][NextPre]_vars

\* a name of the table from which following the entries never reaches a text
\* that is no name of the table
RECURSIVE ReachesCycle(_, _, _)
ReachesCycle(table, name, seen) ==
    IF name \notin DOMAIN table THEN FALSE
    ELSE IF name \in seen THEN TRUE
    ELSE ReachesCycle(table, Str(Trim(table[name])), seen \cup {name})

\* C22: resolving a colour argument of an fg/bg tag terminates for every theme
\* colour table, a table whose names refer to each other in a cycle included:
\* preprocessing ends with the text or with an error, never with the stack
\* exhausted.
C22_ResolutionTerminates ==
    pc = "done" => result.st \in {"ok", "err"}

\* a -> b -> a: the recursion never returns
C22_Witness ==
    /\ pc = "done"
    /\ colors = CycleColors
    /\ ReachesCycle(colors, "a", {})
    /\ template = Chars("(fg a)y (/fg)")
    /\ result = Overflow

----------------------------------------------------------------------------
(* Properties of the right section of write_three_sections *)

\* the column at which the right text ends in the last column of the row
FlushRightCol == width - StrWidth(bufOp.texts[3])

\* the right text fits after the center section and a gap of one column, or
\* after the left section and a gap when there is no center
RightFits ==
    LET left_width == StrWidth(bufOp.texts[1])
        center_width == StrWidth(bufOp.texts[2])
    IN /\ bufOp.texts[3] # <<>>
       /\ FlushRightCol >= left_width + 1
       /\ bufOp.texts[2] # <<>> =>
             /\ bufOp.center # {}
             /\ \A col \in bufOp.center : FlushRightCol >= col + 2

\* C23: with write_three_sections, whenever the right text fits to the right
\* of the end of the center section plus a gap of one column (or of the end of
\* the left section when there is no center), the right section starts at
\* column width - right_width, so its last character is in the last column of
\* the row.
C23_RightIsFlush ==
    (bufOp.op = "write_three_sections" /\ RightFits) =>
        bufOp.right = FlushRightCol..(width - 1)

\* width 6, center "a" in column 2, right "a": written in column 4, not 5
C23_Witness ==
    /\ bufOp.op = "write_three_sections"
    /\ width = 6
    /\ bufOp.texts = <<<<>>, <<"a">>, <<"a">>>>
    /\ RightFits
    /\ bufOp.center = {2}
    /\ bufOp.right = {4}

----------------------------------------------------------------------------
(* History storage.  The file is the sequence of its entries; fs4 locks are  *)
(* advisory: they order the processes that ask for them and stop no open,    *)
(* truncation or write.  Three processes run concurrently: one append_entry, *)
(* one clear_older_than and one read_all_entries.                            *)

\* an entry and whether its timestamp is inside the retention window
\* (e.ts >= cutoff)
Entry(id, fresh) == [id |-> id, fresh |-> fresh]

OldEntry == Entry("old", FALSE)
KeptEntry == Entry("kept", TRUE)
NewEntry == Entry("new", TRUE)

\* the history file before the three calls: the kept entry is inside the
\* retention window in each
HistoryFiles ==
    {<<OldEntry, KeptEntry>>, <<KeptEntry, OldEntry>>, <<KeptEntry>>,
     <<OldEntry, OldEntry, KeptEntry>>}

Proc(pcv, entries) == [pc |-> pcv, entries |-> entries]

InitHistory ==
    /\ file \in HistoryFiles
    /\ lock = {}
    /\ procs = [p \in {"appender", "cleaner", "reader"} |-> Proc("start", <<>>)]
    /\ PreStart(<<>>)
    /\ BufIdle
    /\ RpIdle
    /\ CallIdle
    /\ RegIdle

ExclusiveFree == lock = {}
SharedFree == \A l \in lock : l[2] # "exclusive"

\* a write of entries at offset 0 of a file opened without append: what the
\* file holds past the written part stays
WriteAtStart(old, entries) ==
    IF Len(old) <= Len(entries) THEN entries
    ELSE entries \o SubSeq(old, Len(entries) + 1, Len(old))

\* append_entry: open for append, lock_exclusive
AppendLock ==
    /\ procs["appender"].pc = "start"
    /\ ExclusiveFree
    /\ lock' = lock \cup {<<"appender", "exclusive">>}
    /\ procs' = [procs EXCEPT !["appender"].pc = "locked"]
    /\ UNCHANGED <<file, preVars, bufVars, rpVars, callVars, regVars>>

\* append_entry: writeln, flush, drop of the file
AppendWrite ==
    /\ procs["appender"].pc = "locked"
    /\ file' = file \o <<NewEntry>>
    /\ lock' = lock \ {<<"appender", "exclusive">>}
    /\ procs' = [procs EXCEPT !["appender"].pc = "done"]
    /\ UNCHANGED <<preVars, bufVars, rpVars, callVars, regVars>>

\* read_all_entries, called by the reader or inside clear_older_than: open,
\* lock_shared
ReadLock(p) ==
    /\ procs[p].pc = "start"
    /\ SharedFree
    /\ lock' = lock \cup {<<p, "shared">>}
    /\ procs' = [procs EXCEPT ![p].pc = "reading"]
    /\ UNCHANGED <<file, preVars, bufVars, rpVars, callVars, regVars>>

\* read_all_entries: the lines are read, the file is dropped
ReadLines(p) ==
    /\ procs[p].pc = "reading"
    /\ lock' = lock \ {<<p, "shared">>}
    /\ procs' = [procs EXCEPT ![p] = Proc(IF p = "cleaner" THEN "read" ELSE "done", file)]
    /\ UNCHANGED <<file, preVars, bufVars, rpVars, callVars, regVars>>

ReaderLock == ReadLock("reader")
ReaderLines == ReadLines("reader")
ClearReadLock == ReadLock("cleaner")
ClearReadLines == ReadLines("cleaner")

Keep(entries) == SelectSeq(entries, LAMBDA e : e.fresh)

\* clear_older_than: nothing to remove
ClearNothing ==
    /\ procs["cleaner"].pc = "read"
    /\ Keep(procs["cleaner"].entries) = procs["cleaner"].entries
    /\ procs' = [procs EXCEPT !["cleaner"].pc = "done"]
    /\ UNCHANGED <<file, lock, preVars, bufVars, rpVars, callVars, regVars>>

\* clear_older_than: the partition, and the open with truncate(true), which
\* empties the file before any lock is asked for
ClearTruncate ==
    /\ procs["cleaner"].pc = "read"
    /\ Keep(procs["cleaner"].entries) # procs["cleaner"].entries
    /\ file' = <<>>
    /\ procs' = [procs EXCEPT !["cleaner"] = Proc("truncated", Keep(procs["cleaner"].entries))]
    /\ UNCHANGED <<lock, preVars, bufVars, rpVars, callVars, regVars>>

\* clear_older_than: lock_exclusive
ClearLock ==
    /\ procs["cleaner"].pc = "truncated"
    /\ ExclusiveFree
    /\ lock' = lock \cup {<<"cleaner", "exclusive">>}
    /\ procs' = [procs EXCEPT !["cleaner"].pc = "locked"]
    /\ UNCHANGED <<file, preVars, bufVars, rpVars, callVars, regVars>>

\* clear_older_than: the kept entries are written from the start of the file,
\* the file is dropped
ClearRewrite ==
    /\ procs["cleaner"].pc = "locked"
    /\ file' = WriteAtStart(file, procs["cleaner"].entries)
    /\ lock' = lock \ {<<"cleaner", "exclusive">>}
    /\ procs' = [procs EXCEPT !["cleaner"].pc = "done"]
    /\ UNCHANGED <<preVars, bufVars, rpVars, callVars, regVars>>

NextHistory ==
    \/ AppendLock
    \/ AppendWrite
    \/ ReaderLock
    \/ ReaderLines
    \/ ClearReadLock
    \/ ClearReadLines
    \/ ClearNothing
    \/ ClearTruncate
    \/ ClearLock
    \/ ClearRewrite

SpecHistory == InitHistory /\ [][NextHistory]_vars

Holds(entries, e) == \E k \in DOMAIN entries : entries[k] = e

\* C24: history storage is safe under concurrent access: when append_entry
\* runs concurrently with clear_older_than and with reads, no entry whose
\* timestamp is inside the retention window is lost, and no reader observes
\* the file with retained entries missing.
C24_ConcurrentAccessIsSafe ==
    /\ (procs # EmptyMap /\ procs["appender"].pc = "done" /\ procs["cleaner"].pc = "done") =>
          /\ Holds(file, KeptEntry)
          /\ Holds(file, NewEntry)
    /\ (procs # EmptyMap /\ procs["reader"].pc = "done") =>
          Holds(procs["reader"].entries, KeptEntry)

\* the entry appended between the cleaner's read and its truncation is gone
C24_Witness ==
    /\ procs # EmptyMap
    /\ procs["appender"].pc = "done"
    /\ procs["cleaner"].pc = "done"
    /\ Holds(file, KeptEntry)
    /\ ~Holds(file, NewEntry)

----------------------------------------------------------------------------
(* The expression engine's helpers: color, bg, segment and format_time *)

\* a helper parameter: a JSON value
JsonStr(cs) == [kind |-> "str", s |-> cs, n |-> 0]
JsonNum(n) == [kind |-> "num", s |-> <<>>, n |-> n]

\* Value::as_str, Value::as_u64
AsStr(v) == IF v.kind = "str" THEN Some(v.s) ELSE None
AsU64(v) == IF v.kind = "num" /\ v.n >= 0 THEN Some(v.n) ELSE None

ToAnsiFg(c) == Sgr(Chars("38;2;") \o Dec(c.r) \o <<";">> \o Dec(c.g) \o <<";">> \o Dec(c.b))
ToAnsiBg(c) == Sgr(Chars("48;2;") \o Dec(c.r) \o <<";">> \o Dec(c.g) \o <<";">> \o Dec(c.b))

\* what a helper wrote to the output, or the panic of from_hex
Written(parsed, text) ==
    IF parsed.st = "panic" THEN Panic
    ELSE IF parsed.st = "ok" THEN Ok(text)
    ELSE Ok(<<>>)

ColorHelper(params) ==
    IF Len(params) = 2
    THEN LET text == UnwrapOr(AsStr(params[2]), <<>>)
             hex == UnwrapOr(AsStr(params[1]), Chars("#ffffff"))
             color == FromHex(hex)
         IN Written(color, IF color.st = "ok" THEN ToAnsiFg(color.v) \o text \o Reset ELSE <<>>)
    ELSE IF Len(params) = 4
    THEN LET r == UnwrapOr(AsU64(params[1]), 255) % 256
             g == UnwrapOr(AsU64(params[2]), 255) % 256
             b == UnwrapOr(AsU64(params[3]), 255) % 256
             text == UnwrapOr(AsStr(params[4]), <<>>)
         IN Ok(ToAnsiFg(NewColor(r, g, b)) \o text \o Reset)
    ELSE Ok(<<>>)

BgHelper(params) ==
    IF Len(params) = 1
    THEN LET color == FromHex(UnwrapOr(AsStr(params[1]), Chars("#000000")))
         IN Written(color, IF color.st = "ok" THEN ToAnsiBg(color.v) ELSE <<>>)
    ELSE IF Len(params) = 2
    THEN LET text == UnwrapOr(AsStr(params[2]), <<>>)
             color == FromHex(UnwrapOr(AsStr(params[1]), Chars("#000000")))
         IN Written(color, IF color.st = "ok" THEN ToAnsiBg(color.v) \o text \o Reset ELSE <<>>)
    ELSE Ok(<<>>)

SegmentHelper(params) ==
    IF Len(params) = 3
    THEN LET bg_color == FromHex(UnwrapOr(AsStr(params[1]), Chars("#000000")))
             fg_color == FromHex(UnwrapOr(AsStr(params[2]), Chars("#ffffff")))
             text == UnwrapOr(AsStr(params[3]), <<>>)
         IN IF bg_color.st = "panic" \/ fg_color.st = "panic" THEN Panic
            ELSE IF bg_color.st = "ok" /\ fg_color.st = "ok"
            THEN Ok(ToAnsiBg(bg_color.v) \o ToAnsiFg(fg_color.v) \o text)
            ELSE Ok(<<>>)
    ELSE Ok(<<>>)

\* str::replace: every non-overlapping occurrence of pat, left to right
RECURSIVE ReplaceFrom(_, _, _, _, _)
ReplaceFrom(cs, pat, rep, k, text) ==
    LET at == FindFrom(cs, pat, k)
    IN IF at < 0 THEN text \o Slice(cs, k, Len(cs))
       ELSE ReplaceFrom(cs, pat, rep, at + Len(pat), text \o Slice(cs, k, at) \o rep)

Replace(cs, pat, rep) == ReplaceFrom(cs, pat, rep, 0, <<>>)

\* {:02}
Pad2(n) == IF n < 10 THEN <<"0">> \o Dec(n) ELSE Dec(n)

\* Timelike::hour12: the hour of the twelve-hour clock
Hour12(hour) == IF hour % 12 = 0 THEN 12 ELSE hour % 12

TimeReplacements(now) ==
    << <<"%H", Pad2(now.hour)>>, <<"%M", Pad2(now.minute)>>, <<"%S", Pad2(now.second)>>,
       <<"%I", Pad2(Hour12(now.hour))>>,
       <<"%p", IF now.hour < 12 THEN Chars("AM") ELSE Chars("PM")>> >>

StyleReplacements ==
    << <<"(bold)", Sgr(<<"1">>)>>, <<"(/bold)", Sgr(Chars("22"))>>,
       <<"(b)", Sgr(<<"1">>)>>, <<"(/b)", Sgr(Chars("22"))>>,
       <<"(dim)", Sgr(<<"2">>)>>, <<"(/dim)", Sgr(Chars("22"))>>,
       <<"(d)", Sgr(<<"2">>)>>, <<"(/d)", Sgr(Chars("22"))>>,
       <<"(italic)", Sgr(<<"3">>)>>, <<"(/italic)", Sgr(Chars("23"))>>,
       <<"(i)", Sgr(<<"3">>)>>, <<"(/i)", Sgr(Chars("23"))>>,
       <<"(underline)", Sgr(<<"4">>)>>, <<"(/underline)", Sgr(Chars("24"))>>,
       <<"(u)", Sgr(<<"4">>)>>, <<"(/u)", Sgr(Chars("24"))>> >>

RECURSIVE ReplaceEach(_, _)
ReplaceEach(cs, pairs) ==
    IF pairs = <<>> THEN cs
    ELSE ReplaceEach(Replace(cs, Chars(Head(pairs)[1]), Head(pairs)[2]), Tail(pairs))

\* format_time_helper: now is the reading of Local::now() inside the helper;
\* the first parameter is read and not used
FormatTimeHelper(now, params) ==
    LET time_str == IF Len(params) >= 1 THEN UnwrapOr(AsStr(params[1]), <<>>) ELSE <<>>
        format_str == IF Len(params) >= 2 THEN UnwrapOr(AsStr(params[2]), Chars("%H:%M:%S"))
                      ELSE Chars("%H:%M:%S")
    IN Ok(ReplaceEach(ReplaceEach(format_str, TimeReplacements(now)), StyleReplacements))

Clock(hour, minute, second) == [hour |-> hour, minute |-> minute, second |-> second]

\* readings of the local clock
Clocks == {Clock(0, 0, 0), Clock(9, 5, 7), Clock(12, 30, 0), Clock(23, 59, 59)}

\* the time values a context holds: the text and the clock fields it states
TimeValues ==
    {[text |-> Chars("09:05:07"), fields |-> Clock(9, 5, 7)],
     [text |-> Chars("23:59:59"), fields |-> Clock(23, 59, 59)],
     [text |-> Chars("00:00:00"), fields |-> Clock(0, 0, 0)]}

TimeFormats ==
    {Chars("%H:%M:%S"), Chars("%I:%M %p"), Chars("(bold)%H(/bold):%M"), Chars("(d)%S(/d)"),
     Chars("now")}

HelperColors ==
    {Chars("#ff0000"), Chars("00ff00"), Chars("#1A2b3c"), Chars("red"), Chars("#fff"), <<>>,
     <<"é", "é", "é">>}

HelperTexts == {Chars("x"), Chars("main "), Chars("~/src"), <<>>}

HelperValues ==
    {JsonStr(c) : c \in HelperColors} \cup {JsonNum(0), JsonNum(255), JsonNum(300)}

HelperCall(by, params, tmpl, registered, fields, out, again) ==
    [pc |-> "done", by |-> by, params |-> params, template |-> tmpl,
     registered |-> registered, fields |-> fields, out |-> out, again |-> again]

InitHelpers ==
    /\ call = [pc |-> "start"]
    /\ PreStart(<<>>)
    /\ BufIdle
    /\ RpIdle
    /\ HistIdle
    /\ RegIdle

\* {{color "hex" "text"}} and {{color r g b "text"}}
CallColorHelper ==
    /\ call.pc = "start"
    /\ \E first \in HelperValues, text \in HelperTexts, rgb \in BOOLEAN :
          LET params == IF rgb /\ first.kind = "num"
                        THEN <<first, JsonNum(255), JsonNum(0), JsonStr(text)>>
                        ELSE <<first, JsonStr(text)>>
          IN call' = HelperCall("color", params, <<>>, None, None, ColorHelper(params), None)
    /\ UNCHANGED <<preVars, bufVars, rpVars, histVars, regVars>>

\* {{bg "hex"}} and {{bg "hex" "text"}}
CallBgHelper ==
    /\ call.pc = "start"
    /\ \E first \in HelperValues, text \in HelperTexts, one \in BOOLEAN :
          LET params == IF one THEN <<first>> ELSE <<first, JsonStr(text)>>
          IN call' = HelperCall("bg", params, <<>>, None, None, BgHelper(params), None)
    /\ UNCHANGED <<preVars, bufVars, rpVars, histVars, regVars>>

\* the template text of a call of the segment helper
SegmentCallText(bg, fg, text) ==
    Chars("{{segment ") \o Quote \o bg \o Quote \o <<" ">> \o Quote \o fg \o Quote
        \o <<" ">> \o Quote \o text \o Quote \o Chars("}}")

\* register_template of a template that calls the segment helper, then the
\* render of it: the helper runs when the template was registered
CallSegmentHelper ==
    /\ call.pc = "start"
    /\ \E bg \in HelperColors, fg \in HelperColors, text \in HelperTexts,
          before \in {<<>>, Chars("(b)a(/b) ")} :
          LET tmpl == before \o SegmentCallText(bg, fg, text)
              params == <<JsonStr(bg), JsonStr(fg), JsonStr(text)>>
              registered == RegisterTemplate(EmptyMap, EmptyMap, EmptyMap, tmpl)
          IN call' = HelperCall("segment", params, tmpl, Some(registered), None,
                                IF registered.st = "ok" THEN SegmentHelper(params)
                                ELSE Err("render", "main"), None)
    /\ UNCHANGED <<preVars, bufVars, rpVars, histVars, regVars>>

\* {{format_time time "format"}} evaluated twice with the same parameters
CallFormatTime ==
    /\ call.pc = "start"
    /\ \E value \in TimeValues, format \in TimeFormats, now \in Clocks, later \in Clocks :
          LET params == <<JsonStr(value.text), JsonStr(format)>>
          IN call' = HelperCall("format_time", params, <<>>, None, Some(value.fields),
                                FormatTimeHelper(now, params),
                                Some(FormatTimeHelper(later, params)))
    /\ UNCHANGED <<preVars, bufVars, rpVars, histVars, regVars>>

NextHelpers ==
    \/ CallColorHelper
    \/ CallBgHelper
    \/ CallSegmentHelper
    \/ CallFormatTime

SpecHelpers == InitHelpers /\ [][NextHelpers]_vars

Called(by) == call.pc = "done" /\ call.by = by

\* C25: a template that calls the segment helper as
\* {{segment "<bg hex>" "<fg hex>" "<text>"}} registers successfully and
\* renders the background code, the foreground code and the text with no
\* reset code.
C25_SegmentHelperRenders ==
    (/\ Called("segment")
     /\ FromHex(call.params[1].s).st = "ok"
     /\ FromHex(call.params[2].s).st = "ok") =>
        /\ call.registered.v.st = "ok"
        /\ call.out = Ok(ToAnsiBg(FromHex(call.params[1].s).v)
                            \o ToAnsiFg(FromHex(call.params[2].s).v) \o call.params[3].s)

\* the call of the helper is read as the opening of a segment block that no
\* {{endsegment}} closes
C25_Witness ==
    /\ Called("segment")
    /\ call.template = Chars("{{segment \"#ff0000\" \"00ff00\" \"x\"}}")
    /\ call.registered.v = Err("unclosed_segment", "{{endsegment}}")
    /\ call.out.st = "err"

\* C26: format_time is a pure function of its arguments: two evaluations with
\* the same time value and the same format string produce the same output, in
\* which %H, %M, %S, %I and %p are replaced by the zero-padded clock fields of
\* the given time value.
C26_FormatTimeIsPure ==
    Called("format_time") =>
        /\ call.again.v = call.out
        /\ call.out = FormatTimeHelper(call.fields.v, call.params)

\* the time value 09:05:07 formatted at 23:59:59 and again at midnight
C26_Witness ==
    /\ Called("format_time")
    /\ call.params = <<JsonStr(Chars("09:05:07")), JsonStr(Chars("%H:%M:%S"))>>
    /\ call.out = Ok(Chars("23:59:59"))
    /\ call.again.v = Ok(Chars("00:00:00"))

\* the text argument of a call of color or bg
TextArgument == UnwrapOr(AsStr(call.params[Len(call.params)]), <<>>)

\* C29: the color and two-argument bg helpers always emit their text
\* argument: for every colour argument, whether or not it parses as a hex
\* colour, strip_ansi of the helper's output equals the text argument.
C29_HelpersEmitText ==
    (Called("color") \/ (Called("bg") /\ Len(call.params) = 2)) =>
        /\ call.out.st = "ok"
        /\ StripAnsi(call.out.v) = TextArgument

\* a colour name where a hex colour is expected: nothing is written
C29_Witness ==
    /\ Called("color")
    /\ call.params = <<JsonStr(Chars("red")), JsonStr(Chars("main "))>>
    /\ call.out = Ok(<<>>)

----------------------------------------------------------------------------
(* Short and long forms of a style tag *)

ShortThenLong == Chars("(b)x(/bold)")
LongThenShort == Chars("(italic)x(/i)")

\* C27: an opening style tag written with a short alias is closed by the
\* long-form closing tag of the same style and vice versa: "(b)x(/bold)" and
\* "(italic)x(/i)" preprocess without an unclosed-tag error, the closing tag
\* popping the most recently opened tag of that style.
C27_AliasesCloseEachOther ==
    (pc = "done" /\ template \in {ShortThenLong, LongThenShort}) =>
        /\ result.st = "ok"
        /\ style_stack = <<>>

\* the closing code of bold is written and b stays open
C27_Witness ==
    /\ pc = "done"
    /\ template = ShortThenLong
    /\ output = Sgr(Chars("1")) \o Chars("x") \o Sgr(Chars("22"))
    /\ TagNames(style_stack) = <<"b">>
    /\ result = Err("unclosed", <<"b">>)

----------------------------------------------------------------------------
(* Separator and cap shapes of a segment taken from the theme *)

ShapeNames ==
    {Chars("sharp"), Chars("triangle"), Chars("pill"), Chars("round"), Chars("slant"),
     Chars("flame"), Chars("none")}

Shapes == {None} \cup {Some(shape) : shape \in ShapeNames}

ShapedSegment(bg, sep, left_cap) ==
    [name |-> "a", bg |-> bg, fg |-> None, content |-> Chars("x"), sep |-> sep,
     left_cap |-> left_cap]

Reference == Chars("{{seg:a}}")

\* the template text after the reference
Following == {<<>>, Chars("y"), Chars(" y"), Chars("(b)y(/b)"), Chars("{{user}}")}

InitShape ==
    /\ \E bg \in {None, Some(Chars("#ff0000"))}, sep \in Shapes, left_cap \in Shapes,
          after \in Following :
          /\ template = Reference \o after
          /\ colors = EmptyMap
          /\ symbols = EmptyMap
          /\ segments = [n \in {"a"} |-> ShapedSegment(bg, sep, left_cap)]
          /\ pc = "extract"
          /\ chars = <<>>
          /\ i = 0
          /\ output = <<>>
          /\ style_stack = <<>>
          /\ extracted = [st |-> "none"]
          /\ result = [st |-> "running"]
          /\ rendered = [st |-> "none"]
    /\ BufIdle
    /\ RpIdle
    /\ CallIdle
    /\ HistIdle
    /\ RegIdle

SpecShape == InitShape /\ [][NextPre]_vars

\* the reference preprocessed with no text after it
Alone == Preprocess(colors, symbols, segments, Reference)

HasShape == "a" \in DOMAIN segments /\ (segments["a"].sep.some \/ segments["a"].left_cap.some)

\* C28: expanding a reference to a segment whose sep or left_cap is any of
\* the supported shape names preprocesses successfully even when the theme
\* symbol table is empty, and the result does not depend on the template text
\* that follows the reference.
C28_ShapesPreprocess ==
    (pc = "done" /\ HasShape) =>
        /\ result.st = "ok"
        /\ Alone.st = "ok"
        /\ IsPrefix(Alone.v, result.v)

\* the separator of the shape sharp is the symbol segment_separator, which
\* no table holds
C28_Witness ==
    /\ pc = "done"
    /\ template = Reference
    /\ segments["a"] = ShapedSegment(None, Some(Chars("sharp")), None)
    /\ chars = Chars(" x @segment_separator")
    /\ result.st = "err"

\* the separator of the shape pill with the text y after the reference
C28_DependsOnFollowing ==
    /\ pc = "done"
    /\ template = Reference \o Chars("y")
    /\ segments["a"] = ShapedSegment(None, Some(Chars("pill")), None)
    /\ Alone.st = "ok"
    /\ result.st = "err"

----------------------------------------------------------------------------
(* ModuleRegistry.  modules maps the id of a registered module to its        *)
(* enabled_by_default; enabled is the list of enabled ids.  call holds the   *)
(* outputs of render_all until the registry is changed again.                *)

BuiltinModules == {"python", "node", "ruby", "rust", "docker"}

\* modules that register() is called with after construction
OtherModules ==
    {[id |-> "go", enabled_by_default |-> TRUE], [id |-> "custom", enabled_by_default |-> FALSE],
     [id |-> "python", enabled_by_default |-> TRUE]}

\* the ids that enable, disable and set_enabled are called with
ModuleNames == {"python", "docker", "go", "custom", "nosuch"}

\* the lists handed to set_enabled
MaxEnabledList == 2
EnabledLists == UNION {[1..k -> ModuleNames] : k \in 0..MaxEnabledList}

\* the orders in which HashMap::keys can yield the ids
Orders(ids) ==
    {order \in [1..Cardinality(ids) -> ids] : \A id \in ids : \E k \in DOMAIN order : order[k] = id}

Includes(list, id) == \E k \in DOMAIN list : list[k] = id

\* ModuleRegistry::new: the five built-in modules, all enabled
InitRegistry ==
    /\ modules = [id \in BuiltinModules |-> TRUE]
    /\ enabled \in Orders(BuiltinModules)
    /\ call = [pc |-> "start"]
    /\ PreStart(<<>>)
    /\ BufIdle
    /\ RpIdle
    /\ HistIdle

RegRegister ==
    /\ \E module \in OtherModules :
          /\ modules' = Insert(modules, module.id, module.enabled_by_default)
          /\ enabled' = IF module.enabled_by_default /\ ~Includes(enabled, module.id)
                        THEN Append(enabled, module.id)
                        ELSE enabled
    /\ call' = [pc |-> "start"]
    /\ UNCHANGED <<preVars, bufVars, rpVars, histVars>>

RegEnable ==
    /\ \E id \in ModuleNames :
          enabled' = IF id \in DOMAIN modules /\ ~Includes(enabled, id)
                     THEN Append(enabled, id)
                     ELSE enabled
    /\ call' = [pc |-> "start"]
    /\ UNCHANGED <<modules, preVars, bufVars, rpVars, histVars>>

RegDisable ==
    /\ \E id \in ModuleNames : enabled' = SelectSeq(enabled, LAMBDA m : m # id)
    /\ call' = [pc |-> "start"]
    /\ UNCHANGED <<modules, preVars, bufVars, rpVars, histVars>>

RegSetEnabled ==
    /\ \E list \in EnabledLists : enabled' = SelectSeq(list, LAMBDA id : id \in DOMAIN modules)
    /\ call' = [pc |-> "start"]
    /\ UNCHANGED <<modules, preVars, bufVars, rpVars, histVars>>

\* render_all: one output for every element of the enabled list whose module
\* displays in the context (from the cache or rendered now)
RenderAll(displayed) == SelectSeq(enabled, LAMBDA id : id \in DOMAIN modules /\ id \in displayed)

RegRenderAll ==
    /\ \E hidden \in SUBSET {"docker"} :
          call' = [pc |-> "done", by |-> "render_all",
                   outputs |-> RenderAll(DOMAIN modules \ hidden)]
    /\ UNCHANGED <<modules, enabled, preVars, bufVars, rpVars, histVars>>

NextRegistry ==
    \/ RegRegister
    \/ RegEnable
    \/ RegDisable
    \/ RegSetEnabled
    \/ RegRenderAll

SpecRegistry == InitRegistry /\ [][NextRegistry]_vars

NoDuplicates(list) == \A j, k \in DOMAIN list : list[j] = list[k] => j = k

\* C30: after any sequence of register, enable, disable and set_enabled
\* calls, the enabled list contains only ids of registered modules and
\* contains no id more than once, so render_all yields at most one output per
\* module.
C30_EnabledIsASetOfRegistered ==
    /\ \A k \in DOMAIN enabled : enabled[k] \in DOMAIN modules
    /\ NoDuplicates(enabled)
    /\ (call.pc = "done" /\ call.by = "render_all") => NoDuplicates(call.outputs)

\* set_enabled(["python", "python"]) and then render_all
C30_Witness ==
    /\ enabled = <<"python", "python">>
    /\ call.pc = "done"
    /\ call.by = "render_all"
    /\ call.outputs = <<"python", "python">>

\* what does hold: every enabled id is registered
C30_EnabledAreRegistered == \A k \in DOMAIN enabled : enabled[k] \in DOMAIN modules

====
